---- MODULE Spec2Model ----
(***************************************************************************)
(* Courier Quest: the order lifecycle, the economy (stamina, reputation,   *)
(* money), the weather and the CPU agents, as a state machine.             *)
(*                                                                         *)
(* Units.  Time is in milliseconds (the run loop's dt is                   *)
(* clock.tick(60) / 1000.0, an integer number of milliseconds).  Stamina   *)
(* and stamina costs are in millionths of a point, intensity in 1/10000,   *)
(* fixed penalties and multipliers in 1/100.  An order's duration is kept  *)
(* in milliseconds (duration_minutes * 60 seconds).                        *)
(*                                                                         *)
(* The whole program state is the four variables; every handler is an      *)
(* operator from a state record [g, o, c, w] to the state record after it, *)
(* so that a handler that calls another one is their composition.          *)
(***************************************************************************)
EXTENDS Integers, Sequences, FiniteSets, TLC

VARIABLES game, orders, cpus, weather

vars == <<game, orders, cpus, weather>>

St == [g |-> game, o |-> orders, c |-> cpus, w |-> weather]

(***************************************************************************)
(* Program constants                                                       *)
(***************************************************************************)
MAX_STAMINA == 100
MAX_WEIGHT == 10
MAX_ACTIVE_ORDERS == 10
START_REPUTATION == 70
EXPIRE_PENALTY == 6
LATE_PENALTY == 3
ONTIME_REWARD == 2
CPU_EARLY_REWARD == 5
LOSE_REPUTATION == 20
EXHAUSTION_RECOVERY_THRESHOLD == 30
MOVE_COOLDOWN_MS == 80
RECOVERY_DELAY_MS == 1000
BASE_RECOVERY == 5
PARK_BONUS_RECOVERY == 15
DECISION_INTERVAL_MS == 500
EASY_TARGET_INTERVAL_MS == 3000
MEDIUM_RECALC_INTERVAL_MS == 2000
MAX_STUCK_ATTEMPTS == 5
TRANSITION_DURATION_MS == 3000
FIRST_BURST_S == 30
MAX_SELECT_INDEX == 6

SU == 1000 * 1000
BASE_MOVE_COST == 2 * SU

(***************************************************************************)
(* Small helpers                                                           *)
(***************************************************************************)
Min(a, b) == IF a < b THEN a ELSE b
Max(a, b) == IF a > b THEN a ELSE b
Abs(a) == IF a < 0 THEN -a ELSE a

Pos(x, y) == [x |-> x, y |-> y]

Range(seq) == {seq[i] : i \in 1..Len(seq)}

RECURSIVE SumWeights(_, _)
SumWeights(o, seq) ==
    IF seq = <<>> THEN 0 ELSE o[Head(seq)].weight + SumWeights(o, Tail(seq))

RECURSIVE SelectSeqIds(_, _, _)
\* the elements of seq, in order, whose id is in keep
SelectSeqIds(seq, keep, acc) ==
    IF seq = <<>> THEN acc
    ELSE SelectSeqIds(Tail(seq), keep,
                      IF Head(seq) \in keep THEN Append(acc, Head(seq)) ELSE acc)

RECURSIVE RemoveFirst(_, _)
\* list.remove(x): drops the first occurrence
RemoveFirst(seq, x) ==
    IF seq = <<>> THEN <<>>
    ELSE IF Head(seq) = x THEN Tail(seq)
    ELSE <<Head(seq)>> \o RemoveFirst(Tail(seq), x)

SatAdd(x, d, cap) == Min(x + d, cap)

(***************************************************************************)
(* The world: tile legend and tile grids                                   *)
(***************************************************************************)
Legend ==
    [C |-> [name |-> "calle", blocked |-> FALSE, rest_bonus |-> 0],
     B |-> [name |-> "edificio", blocked |-> TRUE, rest_bonus |-> 0],
     P |-> [name |-> "parque", blocked |-> FALSE, rest_bonus |-> 15]]

CityWidth(g) == Len(g.tiles[1])
CityHeight(g) == Len(g.tiles)

TileAt(g, p) == g.tiles[p.y + 1][p.x + 1]

InBounds(g, p) ==
    /\ 0 <= p.x /\ p.x < CityWidth(g)
    /\ 0 <= p.y /\ p.y < CityHeight(g)

IsPositionWalkable(g, p) ==
    IF ~InBounds(g, p) THEN FALSE
    ELSE ~Legend[TileAt(g, p)].blocked

(***************************************************************************)
(* Weather (systems/weather.py)                                            *)
(***************************************************************************)
Conditions ==
    {"clear", "clouds", "rain_light", "rain", "storm", "fog", "wind", "heat", "cold"}

\* the conditions with positive weight in each row of TRANSITION_MATRIX
TransitionRow(c) ==
    CASE c = "clear" -> {"clear", "clouds", "wind", "heat"}
      [] c = "clouds" -> {"clear", "clouds", "rain_light", "fog"}
      [] c = "rain_light" -> {"clouds", "rain_light", "rain", "clear"}
      [] c = "rain" -> {"rain_light", "rain", "storm", "clouds"}
      [] c = "storm" -> {"rain", "storm", "clouds"}
      [] c = "fog" -> {"fog", "clouds", "clear"}
      [] c = "wind" -> {"wind", "clear", "clouds", "cold"}
      [] c = "heat" -> {"heat", "clear", "clouds"}
      [] c = "cold" -> {"cold", "clear", "clouds", "wind"}
      [] OTHER -> {"clear"}

\* in 1/100
SpeedMultiplier(c) ==
    CASE c = "clear" -> 100 [] c = "clouds" -> 98 [] c = "rain_light" -> 90
      [] c = "rain" -> 85 [] c = "storm" -> 75 [] c = "fog" -> 88
      [] c = "wind" -> 92 [] c = "heat" -> 90 [] c = "cold" -> 92

\* in 1/100
StaminaPenalty(c) ==
    CASE c = "clear" -> 0 [] c = "clouds" -> 0 [] c = "rain_light" -> 5
      [] c = "rain" -> 10 [] c = "storm" -> 30 [] c = "fog" -> 0
      [] c = "wind" -> 10 [] c = "heat" -> 20 [] c = "cold" -> 5

\* (1 - cos(progress * pi)) / 2 in 1/10000, progress = min(1, elapsed / 3 s);
\* tabulated every half second of elapsed time (the frame times of the model
\* are multiples of 500 ms)
SmoothProgress(elapsed_ms) ==
    LET k == elapsed_ms \div 500 IN
    CASE k <= 0 -> 0
      [] k = 1 -> 670
      [] k = 2 -> 2500
      [] k = 3 -> 5000
      [] k = 4 -> 7500
      [] k = 5 -> 9330
      [] OTHER -> 10000

WeatherInit ==
    [current_condition |-> "clear", current_intensity |-> 5000,
     time_in_current |-> 0, burst_duration |-> FIRST_BURST_S * 1000,
     transitioning |-> FALSE, elapsed |-> 0,
     previous_condition |-> "clear", previous_intensity |-> 5000,
     target_condition |-> "clear", target_intensity |-> 5000]

\* _initiate_weather_change; rnd holds the three random draws
InitiateWeatherChange(w, rnd) ==
    [w EXCEPT !.transitioning = TRUE,
              !.elapsed = 0,
              !.previous_condition = w.current_condition,
              !.previous_intensity = w.current_intensity,
              !.target_condition = rnd.condition,
              !.target_intensity = rnd.intensity,
              !.time_in_current = 0,
              !.burst_duration = rnd.burst]

\* EnhancedWeatherSystem.update; elapsed is time.time() - transition_start_time,
\* which advances with the frame time
WeatherUpdate(w, dt, rnd) ==
    LET w1 == [w EXCEPT !.time_in_current = @ + dt,
                        !.elapsed = IF w.transitioning THEN @ + dt ELSE @]
        sp == SmoothProgress(w1.elapsed)
        w2 == IF ~w1.transitioning THEN w1
              ELSE IF w1.elapsed >= TRANSITION_DURATION_MS
                   THEN [w1 EXCEPT !.transitioning = FALSE,
                                   !.current_condition = w1.target_condition,
                                   !.current_intensity = w1.target_intensity]
                   ELSE [w1 EXCEPT !.current_intensity =
                            w1.previous_intensity +
                            ((w1.target_intensity - w1.previous_intensity) * sp) \div 10000]
    IN  IF w2.time_in_current >= w2.burst_duration /\ ~w2.transitioning
        THEN InitiateWeatherChange(w2, rnd)
        ELSE w2

\* whether the update of this frame draws random numbers
WeatherWillInitiate(w, dt) ==
    /\ w.time_in_current + dt >= w.burst_duration
    /\ (w.transitioning => w.elapsed + dt >= TRANSITION_DURATION_MS)

\* get_stamina_penalty, in millionths
GetStaminaPenalty(w) ==
    LET base == IF w.transitioning
                THEN StaminaPenalty(w.previous_condition) * 100 +
                     ((StaminaPenalty(w.target_condition)
                        - StaminaPenalty(w.previous_condition))
                      * SmoothProgress(w.elapsed)) \div 100
                ELSE StaminaPenalty(w.current_condition) * 100
    IN  (base * w.current_intensity) \div 100

\* get_speed_multiplier, in millionths
GetSpeedMultiplier(w) ==
    LET base == IF w.transitioning
                THEN SpeedMultiplier(w.previous_condition) * 100 +
                     ((SpeedMultiplier(w.target_condition)
                        - SpeedMultiplier(w.previous_condition))
                      * SmoothProgress(w.elapsed)) \div 100
                ELSE SpeedMultiplier(w.current_condition) * 100
    IN  (base * (10000 - w.current_intensity \div 5)) \div 100

(***************************************************************************)
(* Orders and the available-orders priority queue                          *)
(***************************************************************************)
\* variant: the countdown of an order runs from created_at whatever its status
GetOrderTimeRemaining_FromCreation(s, id) ==
    Max(0, s.o[id].duration - (s.g.game_time - s.o[id].created_at))

\* get_order_time_remaining (game.py), in ms
GetOrderTimeRemaining(s, id) ==
    LET ord == s.o[id] IN
    IF ord.status = "waiting_release" THEN ord.duration
    ELSE Max(0, ord.duration - (s.g.game_time - ord.created_at))

RECURSIVE Bisect(_, _, _, _, _)
\* the while loop of OptimizedPriorityQueue.enqueue (0-based left, right)
Bisect(o, items, priority, left, right) ==
    IF left < right
    THEN LET mid == (left + right) \div 2 IN
         IF o[items[mid + 1]].priority < priority
         THEN Bisect(o, items, priority, left, mid)
         ELSE Bisect(o, items, priority, mid + 1, right)
    ELSE left

InsertAt(items, k, id) ==
    SubSeq(items, 1, k) \o <<id>> \o SubSeq(items, k + 1, Len(items))

\* OptimizedPriorityQueue.enqueue
Enqueue(o, items, id) ==
    IF items = <<>> THEN <<id>>
    ELSE InsertAt(items, Bisect(o, items, o[id].priority, 0, Len(items)), id)

RECURSIVE RingSearch(_, _, _, _)
\* the (dx, dy) scan of one ring of _find_nearest_walkable_position, dx outer
\* and dy inner, k counting the cells of the (2r+1) x (2r+1) square
RingSearch(g, p, r, k) ==
    LET side == 2 * r + 1
        dx == (k \div side) - r
        dy == (k % side) - r
        q == Pos(p.x + dx, p.y + dy)
    IN  IF k >= side * side THEN [found |-> FALSE, pos |-> p]
        ELSE IF (Abs(dx) = r \/ Abs(dy) = r) /\ IsPositionWalkable(g, q)
             THEN [found |-> TRUE, pos |-> q]
             ELSE RingSearch(g, p, r, k + 1)

RECURSIVE NearestFrom(_, _, _)
NearestFrom(g, p, r) ==
    IF r >= Min(CityWidth(g), CityHeight(g)) \div 2 THEN Pos(1, 1)
    ELSE LET hit == RingSearch(g, p, r, 0) IN
         IF hit.found THEN hit.pos ELSE NearestFrom(g, p, r + 1)

FindNearestWalkablePosition(g, p) == NearestFrom(g, p, 1)

\* _validate_order_positions followed by _fix_order_positions
FixOrderPositions(g, ord) ==
    [ord EXCEPT
        !.pickup = IF IsPositionWalkable(g, ord.pickup) THEN @
                   ELSE FindNearestWalkablePosition(g, ord.pickup),
        !.dropoff = IF IsPositionWalkable(g, ord.dropoff) THEN @
                    ELSE FindNearestWalkablePosition(g, ord.dropoff)]

\* orders_to_release of _process_order_releases
\* variant: the thresholds are cap/3 and cap/2 without rounding down
OrdersToRelease_Unrounded(current_active_orders) ==
    IF current_active_orders * 3 < MAX_ACTIVE_ORDERS THEN 3
    ELSE IF current_active_orders * 2 < MAX_ACTIVE_ORDERS THEN 2
    ELSE IF current_active_orders < MAX_ACTIVE_ORDERS THEN 1
    ELSE 0

OrdersToRelease(current_active_orders) ==
    IF current_active_orders < MAX_ACTIVE_ORDERS \div 3 THEN 3
    ELSE IF current_active_orders < MAX_ACTIVE_ORDERS \div 2 THEN 2
    ELSE IF current_active_orders < MAX_ACTIVE_ORDERS THEN 1
    ELSE 0

RECURSIVE ReleaseLoop(_, _, _, _)
ReleaseLoop(s, released_count, orders_to_release, current_active_orders) ==
    IF /\ s.g.pending_orders # <<>>
       /\ released_count < orders_to_release
       /\ s.o[Head(s.g.pending_orders)].release_time <= s.g.game_time
       /\ current_active_orders < MAX_ACTIVE_ORDERS
    THEN LET id == Head(s.g.pending_orders)
             ord == [FixOrderPositions(s.g, s.o[id]) EXCEPT
                        !.status = "available",
                        !.created_at = s.g.game_time]
             o1 == [s.o EXCEPT ![id] = ord]
             s1 == [s EXCEPT !.o = o1,
                             !.g.pending_orders = Tail(@),
                             !.g.available_orders = Enqueue(o1, @, id)]
         IN  ReleaseLoop(s1, released_count + 1, orders_to_release,
                         current_active_orders + 1)
    ELSE s

\* CourierQuest._process_order_releases
\* variant: the release step takes the pool for empty whatever it holds
ProcessOrderReleases_IgnoringPool(s) == ReleaseLoop(s, 0, 3, 0)

ProcessOrderReleases(s) ==
    ReleaseLoop(s, 0, OrdersToRelease(Len(s.g.available_orders)),
                Len(s.g.available_orders))

\* CourierQuest._check_expired_orders
CheckExpiredOrders(s) ==
    LET poolExpired == {id \in Range(s.g.available_orders) :
                            GetOrderTimeRemaining(s, id) <= 0}
        invExpired == {id \in Range(s.g.inventory) :
                            GetOrderTimeRemaining(s, id) <= 0}
        n == Cardinality(poolExpired) + Cardinality(invExpired)
    IN  [s EXCEPT
            !.g.available_orders =
                SelectSeqIds(@, Range(@) \ poolExpired, <<>>),
            !.g.inventory = SelectSeqIds(@, Range(@) \ invExpired, <<>>),
            !.g.reputation = @ - EXPIRE_PENALTY * n,
            !.g.delivery_streak = IF n > 0 THEN 0 ELSE @,
            !.g.last_delivery_was_clean = IF n > 0 THEN FALSE ELSE @]

(***************************************************************************)
(* Sorting algorithms (systems/sorting.py), on sequences of order ids      *)
(***************************************************************************)
RECURSIVE QuicksortByPriority(_, _)
QuicksortByPriority(o, seq) ==
    IF Len(seq) <= 1 THEN seq
    ELSE LET pivot == o[seq[(Len(seq) \div 2) + 1]].priority
             left == SelectSeq(seq, LAMBDA x : o[x].priority > pivot)
             middle == SelectSeq(seq, LAMBDA x : o[x].priority = pivot)
             right == SelectSeq(seq, LAMBDA x : o[x].priority < pivot)
         IN  QuicksortByPriority(o, left) \o middle \o QuicksortByPriority(o, right)

\* get_time_remaining of _merge_by_deadline
MergeTimeRemaining(o, game_time, id) ==
    IF o[id].status = "waiting_release" THEN o[id].duration
    ELSE Max(0, o[id].duration - (game_time - o[id].created_at))

RECURSIVE MergeByDeadline(_, _, _, _)
MergeByDeadline(o, left, right, game_time) ==
    IF left = <<>> THEN right
    ELSE IF right = <<>> THEN left
    ELSE IF MergeTimeRemaining(o, game_time, Head(left))
                <= MergeTimeRemaining(o, game_time, Head(right))
         THEN <<Head(left)>> \o MergeByDeadline(o, Tail(left), right, game_time)
         ELSE <<Head(right)>> \o MergeByDeadline(o, left, Tail(right), game_time)

RECURSIVE MergesortByDeadline(_, _, _)
MergesortByDeadline(o, seq, game_time) ==
    IF Len(seq) <= 1 THEN seq
    ELSE LET mid == Len(seq) \div 2 IN
         MergeByDeadline(o,
                         MergesortByDeadline(o, SubSeq(seq, 1, mid), game_time),
                         MergesortByDeadline(o, SubSeq(seq, mid + 1, Len(seq)), game_time),
                         game_time)

ManhattanDistance(a, b) == Abs(a.x - b.x) + Abs(a.y - b.y)

RECURSIVE InsertByDistance(_, _, _, _)
\* the inner while loop: shifts the elements of the sorted prefix that are
\* farther than the key one place right, scanning from the end
InsertByDistance(o, prefix, key, player_pos) ==
    IF prefix # <<>> /\
       ManhattanDistance(o[prefix[Len(prefix)]].pickup, player_pos)
            > ManhattanDistance(o[key].pickup, player_pos)
    THEN Append(InsertByDistance(o, SubSeq(prefix, 1, Len(prefix) - 1), key, player_pos),
                prefix[Len(prefix)])
    ELSE Append(prefix, key)

RECURSIVE InsertionSortFrom(_, _, _, _)
InsertionSortFrom(o, done, rest, player_pos) ==
    IF rest = <<>> THEN done
    ELSE InsertionSortFrom(o, InsertByDistance(o, done, Head(rest), player_pos),
                           Tail(rest), player_pos)

\* variant: the copy of the list is returned without the insertion loop
InsertionSortByDistance_CopyOnly(o, seq, player_pos) == seq

InsertionSortByDistance(o, seq, player_pos) ==
    InsertionSortFrom(o, <<>>, seq, player_pos)

(***************************************************************************)
(* The human player (game.py)                                              *)
(***************************************************************************)
\* CourierQuest.calculate_stamina_cost, in millionths
CalculateStaminaCost(s) ==
    LET current_weight == SumWeights(s.o, s.g.inventory)
        weight_penalty == IF current_weight * 10 > MAX_WEIGHT * 7 THEN SU \div 2
                          ELSE IF current_weight * 10 > MAX_WEIGHT * 5 THEN SU \div 5
                          ELSE 0
    IN  2 * (SU + GetStaminaPenalty(s.w) + weight_penalty)

\* actual_speed / base_speed of calculate_actual_speed, in 1/10000
SpeedRatio(s) ==
    LET stamina_multiplier == IF s.g.stamina < 30 * SU THEN 50
                              ELSE IF s.g.stamina < 50 * SU THEN 80 ELSE 100
        current_weight == SumWeights(s.o, s.g.inventory)
        weight_multiplier == IF current_weight * 10 > MAX_WEIGHT * 7 THEN 60
                             ELSE IF current_weight * 10 > MAX_WEIGHT * 5 THEN 80
                             ELSE 100
    IN  ((GetSpeedMultiplier(s.w) \div 100) * stamina_multiplier * weight_multiplier)
            \div 10000

\* CourierQuest.is_valid_move
IsValidMove(s, p) ==
    /\ InBounds(s.g, p)
    /\ ~Legend[TileAt(s.g, p)].blocked
    /\ s.g.stamina > 0
    /\ s.g.stamina >= CalculateStaminaCost(s)

\* CourierQuest.move_player
MovePlayer(s, p) ==
    IF s.g.stamina <= 0 THEN s
    ELSE IF s.g.stamina < CalculateStaminaCost(s) THEN s
    ELSE [s EXCEPT !.g.player_pos = p,
                   !.g.stamina = Max(0, @ - CalculateStaminaCost(s)),
                   !.g.time_since_last_move = 0]

Directions ==
    [left |-> Pos(-1, 0), right |-> Pos(1, 0), up |-> Pos(0, -1), down |-> Pos(0, 1)]

Keys == {"none", "left", "right", "up", "down"}

\* last_move_time only ever is compared with the adjusted cooldown, which is at
\* most MOVE_COOLDOWN / 0.1; the model keeps it up to that value
LastMoveCap == MOVE_COOLDOWN_MS * 10

\* CourierQuest.handle_input; key is the arrow key held down, if any
HandleInput(s, key, dt) ==
    IF s.g.game_over THEN s
    ELSE IF s.g.stamina <= 0 THEN s
    ELSE LET ratio == Max(1000, SpeedRatio(s))
             lmt == SatAdd(s.g.last_move_time, dt, LastMoveCap)
             s1 == [s EXCEPT !.g.last_move_time = lmt]
         IN  IF lmt * ratio < MOVE_COOLDOWN_MS * 10000 THEN s1
             ELSE IF key = "none" THEN s1
             ELSE LET d == Directions[key]
                      new_pos == Pos(s.g.player_pos.x + d.x, s.g.player_pos.y + d.y)
                  IN  IF IsValidMove(s1, new_pos)
                      THEN [MovePlayer(s1, new_pos) EXCEPT !.g.last_move_time = 0]
                      ELSE s1

\* variant: save_score without the guard against a second record
SaveScore_Unguarded(s, io_ok) ==
    IF io_ok
    THEN [ok |-> TRUE, s |-> [s EXCEPT !.g.score_records = @ + 1]]
    ELSE [ok |-> FALSE, s |-> s]

\* CourierQuest.save_score; io_ok says whether the score file can be written
SaveScore(s, io_ok) ==
    IF s.g.score_saved THEN [ok |-> TRUE, s |-> s]
    ELSE IF io_ok
         THEN [ok |-> TRUE, s |-> [s EXCEPT !.g.score_records = @ + 1]]
         ELSE [ok |-> FALSE, s |-> s]

\* the multiplier of a delivery by the human, in 1/100, before the streak bonus
\* variant: a delivery that is on time but not early is charged instead of paid
HumanBaseMultiplier_Charged(ord, time_remaining) ==
    IF time_remaining * 100 > ord.duration * 66 THEN 110
    ELSE IF time_remaining <= 0 THEN 50
    ELSE -100

HumanBaseMultiplier(ord, time_remaining) ==
    IF time_remaining * 100 > ord.duration * 66 THEN 110
    ELSE IF time_remaining <= 0 THEN 50
    ELSE 100

\* variant: the bonus grows with every delivery of the streak, from the first
StreakBonus_PerDelivery(streak) == 5 * Min(streak, 4)

StreakBonus(streak) == IF streak >= 3 THEN 5 * Min(streak \div 3, 4) ELSE 0

\* the largest power of two that is at most n, for n >= 1
RECURSIVE Pow2Floor(_)
Pow2Floor(n) == IF n < 2 THEN 1 ELSE 2 * Pow2Floor(n \div 2)

\* int(order.payout * bonus_multiplier), with the multiplier base + bonus in
\* 1/100.  The multiplier is an IEEE double: 1.0 + 0.05 * 3 evaluates to
\* 1.0 + 0.15000000000000002, the double 0.4 * 2^-52 below 1.15, and every other
\* sum the deliveries form (0.5, 1.0, 1.1, and those plus 0.05, 0.1, 0.2, and
\* 1.1 plus 0.15..2) is a double at or above its decimal or too close below it
\* to matter.  When payout * 1.15 is a whole number N, the double product
\* rounds to the double below N, and int() yields N - 1, exactly when the
\* error payout * 0.4 * 2^-52 exceeds half the spacing 2^(e-52) of the doubles
\* in [2^e, 2^(e+1)) around N, that is when 4 * payout > 5 * 2^e.
IntOfProduct(payout, base, bonus) ==
    LET exact == (payout * (base + bonus)) \div 100
    IN  IF /\ base = 100 /\ bonus = 15
           /\ (payout * 115) % 100 = 0
           /\ 4 * payout > 5 * Pow2Floor(exact)
        THEN exact - 1
        ELSE exact

\* the delivery branch of CourierQuest.interact_at_position for order id
HumanDeliver(s, id, io_ok) ==
    LET ord == s.o[id]
        time_remaining == GetOrderTimeRemaining(s, id)
        early == time_remaining * 100 > ord.duration * 66
        late == ~early /\ time_remaining <= 0
        streak == IF early THEN s.g.delivery_streak
                  ELSE IF late THEN 0 ELSE s.g.delivery_streak + 1
        bonus_multiplier == HumanBaseMultiplier(ord, time_remaining) + StreakBonus(streak)
        payout == IntOfProduct(ord.payout, HumanBaseMultiplier(ord, time_remaining),
                               StreakBonus(streak))
        rep1 == IF late THEN s.g.reputation - LATE_PENALTY ELSE s.g.reputation
        rep2 == IF time_remaining > 0 /\ bonus_multiplier >= 100
                THEN Min(100, rep1 + ONTIME_REWARD) ELSE rep1
        s1 == [s EXCEPT !.g.delivery_streak = streak,
                        !.g.last_delivery_was_clean =
                            IF early THEN @ ELSE ~late,
                        !.g.money = @ + payout,
                        !.g.reputation = rep2,
                        !.g.inventory = RemoveFirst(@, id),
                        !.g.completed_orders = Append(@, id)]
    IN  IF s1.g.money >= s1.g.goal /\ ~s1.g.victory /\ ~s1.g.game_over
        THEN LET s2 == [s1 EXCEPT !.g.victory = TRUE, !.g.game_over = TRUE]
                 saved == SaveScore(s2, io_ok)
             IN  IF saved.ok
                 THEN [saved.s EXCEPT !.g.score_saved = TRUE,
                                      !.g.game_state = "game_over"]
                 ELSE saved.s
        ELSE s1

\* the pickup branch of CourierQuest.interact_at_position for order id
\* variant: the pickup at a tile without the capacity check
HumanPickup_NoCapacity(s, id) ==
    [s EXCEPT !.o[id].status = "picked_up",
              !.g.inventory = Append(@, id),
              !.g.available_orders = RemoveFirst(@, id)]

HumanPickup(s, id) ==
    IF SumWeights(s.o, s.g.inventory) + s.o[id].weight <= MAX_WEIGHT
    THEN [s EXCEPT !.o[id].status = "picked_up",
                   !.g.inventory = Append(@, id),
                   !.g.available_orders = RemoveFirst(@, id)]
    ELSE s

\* CourierQuest.interact_at_position (the statements after the first
\* unconditional return path are the same delivery loop again and find nothing)
InteractAtPosition(s, io_ok) ==
    LET here == s.g.player_pos
        pickable == SelectSeq(s.g.available_orders,
                        LAMBDA id : s.o[id].pickup = here /\ s.o[id].status = "available")
        deliverable == SelectSeq(s.g.inventory,
                        LAMBDA id : s.o[id].dropoff = here /\ s.o[id].status = "picked_up")
    IN  IF pickable # <<>> THEN HumanPickup(s, Head(pickable))
        ELSE IF deliverable # <<>> THEN HumanDeliver(s, Head(deliverable), io_ok)
        ELSE s

\* items[index] of a Python list: a negative index counts from the end
PyIndex(seq, index) == IF index < 0 THEN Len(seq) + index + 1 ELSE index + 1

\* CourierQuest.accept_selected_order with selected_order_index = index
AcceptSelectedOrder(s, index) ==
    IF s.g.available_orders = <<>> \/ index >= Len(s.g.available_orders) THEN s
    ELSE LET id == s.g.available_orders[PyIndex(s.g.available_orders, index)] IN
         IF SumWeights(s.o, s.g.inventory) + s.o[id].weight > MAX_WEIGHT THEN s
         ELSE [s EXCEPT !.o[id].status = "accepted",
                        !.g.inventory = Append(@, id),
                        !.g.available_orders = RemoveFirst(@, id)]

\* CourierQuest._sort_inventory_by_priority
SortInventoryByPriority(s) ==
    IF s.g.inventory = <<>> THEN s
    ELSE [s EXCEPT !.g.inventory = QuicksortByPriority(s.o, @)]

\* CourierQuest._sort_inventory_by_deadline
SortInventoryByDeadline(s) ==
    IF s.g.inventory = <<>> THEN s
    ELSE [s EXCEPT !.g.inventory = MergesortByDeadline(s.o, @, s.g.game_time)]

\* CourierQuest._sort_orders_by_distance
SortOrdersByDistance(s) ==
    IF s.g.available_orders = <<>> THEN s
    ELSE [s EXCEPT !.g.available_orders =
                        InsertionSortByDistance(s.o, @, s.g.player_pos)]

\* time_since_last_move only ever is compared with the recovery delay; the model
\* keeps it up to one past it
SinceMoveCap == RECOVERY_DELAY_MS + 1

\* CourierQuest._get_stamina_recovery_rate, in points per second
GetStaminaRecoveryRate(g) ==
    IF InBounds(g, g.player_pos) /\
       (TileAt(g, g.player_pos) = "P" \/ Legend[TileAt(g, g.player_pos)].rest_bonus > 0)
    THEN BASE_RECOVERY + PARK_BONUS_RECOVERY
    ELSE BASE_RECOVERY

\* the stamina recovery block of CourierQuest.update
RecoverStamina(s, dt) ==
    IF s.g.stamina < MAX_STAMINA * SU /\ s.g.time_since_last_move > RECOVERY_DELAY_MS
    THEN [s EXCEPT !.g.stamina =
            Min(MAX_STAMINA * SU, @ + GetStaminaRecoveryRate(s.g) * dt * (SU \div 1000))]
    ELSE s

\* CourierQuest.update up to the game-over checks
\* variant: the update does not advance game_time
UpdateWorld_ClockStopped(s, dt, rnd) ==
    LET s1 == [s EXCEPT !.w = WeatherUpdate(@, dt, rnd)]
        s2 == CheckExpiredOrders(ProcessOrderReleases(s1))
        s3 == [s2 EXCEPT !.g.time_since_last_move = SatAdd(@, dt, SinceMoveCap)]
    IN  RecoverStamina(s3, dt)

UpdateWorld(s, dt, rnd) ==
    LET s1 == [s EXCEPT !.g.game_time = @ + dt,
                        !.w = WeatherUpdate(@, dt, rnd)]
        s2 == CheckExpiredOrders(ProcessOrderReleases(s1))
        s3 == [s2 EXCEPT !.g.time_since_last_move = SatAdd(@, dt, SinceMoveCap)]
    IN  RecoverStamina(s3, dt)

\* which of the game-over checks of CourierQuest.update applies
TerminalCondition(s) ==
    IF s.g.reputation < LOSE_REPUTATION THEN "reputation"
    ELSE IF s.g.money >= s.g.goal THEN "victory"
    ELSE IF s.g.game_time >= s.g.max_game_time THEN "timeout"
    ELSE "none"

\* the game-over checks of CourierQuest.update
CheckGameOver(s, io_ok) ==
    LET cond == TerminalCondition(s) IN
    IF cond = "none" \/ s.g.game_over THEN s
    ELSE LET s1 == [s EXCEPT !.g.game_over = TRUE,
                             !.g.victory = IF cond = "reputation" THEN FALSE
                                           ELSE s.g.money >= s.g.goal]
             saved == SaveScore(s1, io_ok)
             s2 == [saved.s EXCEPT !.g.score_saved = IF saved.ok THEN TRUE ELSE @]
         IN  IF cond = "reputation" /\ ~saved.ok THEN s2
             ELSE [s2 EXCEPT !.g.game_state = "game_over"]

\* CourierQuest.update
Update(s, dt, rnd, io_ok) ==
    IF s.g.score_saved THEN s
    ELSE IF s.g.game_state # "playing" THEN s
    ELSE CheckGameOver(UpdateWorld(s, dt, rnd), io_ok)

(***************************************************************************)
(* CPU agents (systems/cpu_player.py, systems/ai_strategies.py)            *)
(***************************************************************************)
NoOrder == 0

CPUInit(difficulty) ==
    [difficulty |-> difficulty, pos |-> Pos(2, 4),
     stamina |-> MAX_STAMINA * SU, reputation |-> START_REPUTATION, money |-> 0,
     inventory |-> <<>>, completed_orders |-> <<>>,
     current_order |-> NoOrder, action_state |-> "idle",
     is_exhausted |-> FALSE, time_since_last_move |-> 0, decision_timer |-> 0,
     delivery_streak |-> 0, last_delivery_was_clean |-> TRUE,
     stuck_counter |-> 0, random_target_timer |-> 0, recalculation_timer |-> 0,
     pathfinder |-> FALSE, raised |-> "none"]

\* legend.get(tile_char, {}).get('tipo', 'street'): no legend entry built by the
\* world-data provider has a 'tipo' key
TileTipo(info) == IF "tipo" \in DOMAIN info THEN info.tipo ELSE "street"

\* CPUPlayer._is_valid_move
CPUIsValidMove(s, p) ==
    /\ InBounds(s.g, p)
    /\ TileTipo(Legend[TileAt(s.g, p)]) # "building"

\* WeightedGraph.is_walkable: the tiles that become nodes of the Hard tier's graph
GraphIsWalkable(g, p) ==
    /\ InBounds(g, p)
    /\ TileTipo(Legend[TileAt(g, p)]) # "building"

\* CPUPlayer._calculate_stamina_cost, in millionths
CPUCalculateStaminaCost(s, k) ==
    BASE_MOVE_COST + GetStaminaPenalty(s.w)
        + (SumWeights(s.o, s.c[k].inventory) * (SU \div 2)) \div MAX_WEIGHT

\* CPUPlayer.execute_move
ExecuteMove(s, k, target) ==
    IF s.c[k].time_since_last_move < MOVE_COOLDOWN_MS THEN [ok |-> FALSE, s |-> s]
    ELSE IF s.c[k].is_exhausted THEN [ok |-> FALSE, s |-> s]
    ELSE IF ~CPUIsValidMove(s, target) THEN [ok |-> FALSE, s |-> s]
    ELSE [ok |-> TRUE,
          s |-> [s EXCEPT !.c[k].pos = target,
                          !.c[k].stamina = @ - CPUCalculateStaminaCost(s, k),
                          !.c[k].time_since_last_move = 0]]

\* variant: the rejected pickup returns without dropping the agent's plan
CPUPickupOrder_KeepsPlan(s, k, id) ==
    IF SumWeights(s.o, s.c[k].inventory) + s.o[id].weight > MAX_WEIGHT THEN s
    ELSE [s EXCEPT !.g.available_orders = RemoveFirst(@, id),
                   !.o[id].status = "picked_up",
                   !.o[id].accepted_at = s.g.game_time,
                   !.c[k].inventory = Append(@, id),
                   !.c[k].action_state = "moving_to_dropoff"]

\* CPUPlayer._pickup_order
CPUPickupOrder(s, k, id) ==
    IF SumWeights(s.o, s.c[k].inventory) + s.o[id].weight > MAX_WEIGHT
    THEN [s EXCEPT !.c[k].current_order = NoOrder, !.c[k].action_state = "idle"]
    ELSE [s EXCEPT !.g.available_orders = RemoveFirst(@, id),
                   !.o[id].status = "picked_up",
                   !.o[id].accepted_at = s.g.game_time,
                   !.c[k].inventory = Append(@, id),
                   !.c[k].action_state = "moving_to_dropoff"]

\* CPUPlayer._deliver_order
CPUDeliverOrder(s, k, id) ==
    LET ord == s.o[id]
        me == s.c[k]
        time_limit == ord.duration
        time_remaining == time_limit - (s.g.game_time - ord.accepted_at)
        early == time_remaining * 100 > time_limit * 66
        late == ~early /\ time_remaining < 0
        clean == ~late
        streak == IF late THEN 0 ELSE me.delivery_streak + 1
        base == IF early THEN 110 ELSE IF late THEN 50 ELSE 100
        streak_bonus == IF clean /\ streak >= 3 THEN Min(5 * (streak \div 3), 20) ELSE 0
        final_payout == IntOfProduct(ord.payout, base, streak_bonus)
    IN  [s EXCEPT !.c[k].reputation =
                        IF early THEN @ + CPU_EARLY_REWARD
                        ELSE IF late THEN @ - LATE_PENALTY
                        ELSE @ + ONTIME_REWARD,
                  !.c[k].last_delivery_was_clean = clean,
                  !.c[k].delivery_streak = streak,
                  !.c[k].money = @ + final_payout,
                  !.c[k].inventory = RemoveFirst(@, id),
                  !.o[id].status = "delivered",
                  !.c[k].completed_orders = Append(@, id),
                  !.c[k].current_order = NoOrder,
                  !.c[k].action_state = "idle"]

\* CPUPlayer.interact_at_position
CPUInteractAtPosition(s, k) ==
    LET me == s.c[k]
        deliverable == SelectSeq(me.inventory, LAMBDA id : s.o[id].dropoff = me.pos)
    IN  IF /\ me.current_order # NoOrder
           /\ me.action_state = "moving_to_pickup"
           /\ s.o[me.current_order].pickup = me.pos
        THEN CPUPickupOrder(s, k, me.current_order)
        ELSE IF deliverable # <<>> THEN CPUDeliverOrder(s, k, Head(deliverable))
        ELSE s

\* CPUPlayer._update_stamina_recovery
CPUUpdateStaminaRecovery(s, k, dt) ==
    IF s.c[k].time_since_last_move < RECOVERY_DELAY_MS THEN s
    ELSE LET rate == IF TileTipo(Legend[TileAt(s.g, s.c[k].pos)]) = "park"
                     THEN BASE_RECOVERY + PARK_BONUS_RECOVERY ELSE BASE_RECOVERY
         IN  [s EXCEPT !.c[k].stamina =
                    Min(@ + rate * dt * (SU \div 1000), MAX_STAMINA * SU)]

\* CPUPlayer._clean_expired_orders
CPUCleanExpiredOrders(s, k) ==
    LET expired == {id \in Range(s.c[k].inventory) :
                        (s.g.game_time - s.o[id].accepted_at) * 2 > s.o[id].duration * 3}
    IN  [s EXCEPT !.c[k].inventory = SelectSeqIds(@, Range(@) \ expired, <<>>),
                  !.c[k].reputation = @ - EXPIRE_PENALTY * Cardinality(expired),
                  !.c[k].delivery_streak = IF expired # {} THEN 0 ELSE @]

\* CPUPlayer.get_available_orders filtered by has_capacity_for
CPUValidOrders(s, k) ==
    SelectSeq(s.g.available_orders,
              LAMBDA id : /\ s.o[id].status = "available"
                          /\ SumWeights(s.o, s.c[k].inventory) + s.o[id].weight
                                <= MAX_WEIGHT)

Neighbours(p) == <<Pos(p.x + 1, p.y), Pos(p.x - 1, p.y), Pos(p.x, p.y + 1), Pos(p.x, p.y - 1)>>

\* the states one CPU operation can end in, after each state of a set
Bind(S, F(_)) == UNION {F(x) : x \in S}

(* ---- Easy: EasyAI ---- *)

\* EasyAI._choose_random_order: random.choice over the valid orders
EasyChooseRandomOrder(s, k) ==
    LET valid == CPUValidOrders(s, k) IN
    IF valid = <<>> THEN {s}
    ELSE {[s EXCEPT !.c[k].current_order = id,
                    !.c[k].action_state = "moving_to_pickup"] : id \in Range(valid)}

\* EasyAI._random_move_towards: every direction is in the shuffled list, so the
\* first valid candidate of the shuffle is any valid neighbour
EasyRandomMoveTowards(s, k, target) ==
    LET moved == {ExecuteMove(s, k, m) :
                    m \in {n \in Range(Neighbours(s.c[k].pos)) : CPUIsValidMove(s, n)}}
        done == {r.s : r \in {m \in moved : m.ok}}
        stuck == s.c[k].stuck_counter + 1
    IN  IF done # {} THEN {[d EXCEPT !.c[k].stuck_counter = 0] : d \in done}
        ELSE IF stuck >= MAX_STUCK_ATTEMPTS
             THEN {[s EXCEPT !.c[k].current_order = NoOrder,
                             !.c[k].action_state = "idle",
                             !.c[k].stuck_counter = 0]}
             ELSE {[s EXCEPT !.c[k].stuck_counter = stuck]}

\* EasyAI._random_walk
EasyRandomWalk(s, k) ==
    LET valid == {n \in Range(Neighbours(s.c[k].pos)) : CPUIsValidMove(s, n)} IN
    IF valid = {} THEN {s} ELSE {ExecuteMove(s, k, m).s : m \in valid}

EasyPursue(s, k) ==
    LET me == s.c[k] IN
    IF me.action_state = "moving_to_pickup"
    THEN IF s.o[me.current_order].pickup = me.pos
         THEN {CPUInteractAtPosition(s, k)}
         ELSE EasyRandomMoveTowards(s, k, s.o[me.current_order].pickup)
    ELSE IF me.action_state = "moving_to_dropoff" /\ me.inventory # <<>>
         THEN IF s.o[Head(me.inventory)].dropoff = me.pos
              THEN {CPUInteractAtPosition(s, k)}
              ELSE EasyRandomMoveTowards(s, k, s.o[Head(me.inventory)].dropoff)
         ELSE {s}

EasyIdle(s, k) ==
    LET chosen == IF s.c[k].random_target_timer >= EASY_TARGET_INTERVAL_MS
                  THEN {[c EXCEPT !.c[k].random_target_timer = 0] :
                            c \in EasyChooseRandomOrder(s, k)}
                  ELSE {s}
        Walk(c) == IF c.c[k].current_order = NoOrder THEN EasyRandomWalk(c, k) ELSE {c}
    IN  Bind(chosen, Walk)

\* EasyAI.make_decision
EasyMakeDecision(s, k, dt) ==
    LET s1 == [s EXCEPT !.c[k].random_target_timer =
                            SatAdd(@, dt, EASY_TARGET_INTERVAL_MS)]
        s2 == IF s1.c[k].inventory # <<>> THEN CPUInteractAtPosition(s1, k) ELSE s1
    IN  IF s2.c[k].current_order # NoOrder THEN EasyPursue(s2, k) ELSE EasyIdle(s2, k)

(* ---- Medium: MediumAI ---- *)

\* MediumAI._calculate_order_score, in millionths
MediumOrderScore(s, k, id) ==
    LET ord == s.o[id]
        total_distance == ManhattanDistance(ord.pickup, s.c[k].pos)
                            + ManhattanDistance(ord.dropoff, ord.pickup)
        time_left == ord.duration - (s.g.game_time - ord.created_at)
        urgency20 == 30 * ord.priority + (IF time_left < 120000 THEN 40 ELSE 0)
        reputation10 == IF time_left * 10 > ord.duration * 7 THEN 50 ELSE 0
    IN  ord.payout * SU - 10 * total_distance * SU
            - 5 * GetStaminaPenalty(s.w) * total_distance
            + urgency20 * SU + reputation10 * SU

RECURSIVE MediumBest(_, _, _, _, _)
\* the loop of _evaluate_and_choose_best_order: the first order of the highest score
MediumBest(s, k, rest, best_order, best_score) ==
    IF rest = <<>> THEN best_order
    ELSE LET sc == MediumOrderScore(s, k, Head(rest)) IN
         IF best_order = NoOrder \/ sc > best_score
         THEN MediumBest(s, k, Tail(rest), Head(rest), sc)
         ELSE MediumBest(s, k, Tail(rest), best_order, best_score)

\* MediumAI._evaluate_and_choose_best_order
MediumEvaluateAndChoose(s, k) ==
    LET best == MediumBest(s, k, CPUValidOrders(s, k), NoOrder, 0) IN
    IF best = NoOrder THEN s
    ELSE [s EXCEPT !.c[k].current_order = best,
                   !.c[k].action_state = "moving_to_pickup"]

RECURSIVE GreedyBest(_, _, _, _, _)
GreedyBest(s, target, rest, best_move, best_distance) ==
    IF rest = <<>> THEN best_move
    ELSE LET d == Head(rest)
             dist == ManhattanDistance(target, d)
         IN  IF CPUIsValidMove(s, d) /\ dist < best_distance
             THEN GreedyBest(s, target, Tail(rest), <<d>>, dist)
             ELSE GreedyBest(s, target, Tail(rest), best_move, best_distance)

\* MediumAI._greedy_move_towards
MediumGreedyMoveTowards(s, k, target) ==
    LET best == GreedyBest(s, target, Neighbours(s.c[k].pos), <<>>,
                           ManhattanDistance(target, s.c[k].pos))
    IN  IF best = <<>> THEN s ELSE ExecuteMove(s, k, best[1]).s

\* CPUPlayer.find_nearest_park: the tiles whose legend entry has tipo 'park'
FindNearestPark(s, k) ==
    LET parks == {p \in {Pos(x, y) : x \in 0..(CityWidth(s.g) - 1),
                                     y \in 0..(CityHeight(s.g) - 1)} :
                    TileTipo(Legend[TileAt(s.g, p)]) = "park"}
    IN  IF parks = {} THEN <<>>
        ELSE <<CHOOSE p \in parks :
                \A q \in parks :
                    \/ ManhattanDistance(p, s.c[k].pos) < ManhattanDistance(q, s.c[k].pos)
                    \/ /\ ManhattanDistance(p, s.c[k].pos) = ManhattanDistance(q, s.c[k].pos)
                       /\ (p.y < q.y \/ (p.y = q.y /\ p.x <= q.x))>>

\* MediumAI._move_to_nearest_park
MediumMoveToNearestPark(s, k) ==
    LET park == FindNearestPark(s, k) IN
    IF park = <<>> THEN s
    ELSE IF park[1] = s.c[k].pos THEN s
    ELSE MediumGreedyMoveTowards(s, k, park[1])

MediumPursue(s, k) ==
    LET me == s.c[k] IN
    IF me.action_state = "moving_to_pickup"
    THEN IF s.o[me.current_order].pickup = me.pos
         THEN CPUInteractAtPosition(s, k)
         ELSE MediumGreedyMoveTowards(s, k, s.o[me.current_order].pickup)
    ELSE IF me.action_state = "moving_to_dropoff" /\ me.inventory # <<>>
         THEN IF s.o[Head(me.inventory)].dropoff = me.pos
              THEN CPUInteractAtPosition(s, k)
              ELSE MediumGreedyMoveTowards(s, k, s.o[Head(me.inventory)].dropoff)
         ELSE s

\* MediumAI.make_decision
MediumMakeDecision(s, k, dt) ==
    LET s1 == [s EXCEPT !.c[k].recalculation_timer =
                            SatAdd(@, dt, MEDIUM_RECALC_INTERVAL_MS)]
    IN  IF s1.c[k].stamina < EXHAUSTION_RECOVERY_THRESHOLD * SU
        THEN MediumMoveToNearestPark(s1, k)
        ELSE LET s2 == IF s1.c[k].inventory # <<>>
                       THEN CPUInteractAtPosition(s1, k) ELSE s1
             IN  IF s2.c[k].current_order # NoOrder THEN MediumPursue(s2, k)
                 ELSE IF s2.c[k].recalculation_timer >= MEDIUM_RECALC_INTERVAL_MS
                      THEN [MediumEvaluateAndChoose(s2, k) EXCEPT
                                !.c[k].recalculation_timer = 0]
                      ELSE s2

(***************************************************************************)
(* The Hard tier: the walkability graph and the path searches              *)
(* (utils/graph.py, HardAI of systems/ai_strategies.py)                    *)
(***************************************************************************)
\* hash(Position(x, y)): Position is a dataclass with eq and without frozen, so
\* its __hash__ is None and hashing an instance raises
PositionHash(p) == "TypeError"

\* the positions _build_graph visits
GraphPositions(g) ==
    {Pos(x, y) : x \in 0..(CityWidth(g) - 1), y \in 0..(CityHeight(g) - 1)}

\* WeightedGraph._get_neighbors: north, south, west, east, the walkable ones
GraphGetNeighbors(g, p) ==
    {q \in {Pos(p.x, p.y - 1), Pos(p.x, p.y + 1), Pos(p.x - 1, p.y), Pos(p.x + 1, p.y)} :
        GraphIsWalkable(g, q)}

\* WeightedGraph.__init__ with _build_graph: the first walkable tile is stored in
\* adjacency_list under its Position, which raises; a grid without a walkable
\* tile leaves the adjacency list empty
BuildGraph(g) ==
    LET walkable == {p \in GraphPositions(g) : GraphIsWalkable(g, p)} IN
    IF walkable # {}
    THEN [kind |-> PositionHash(CHOOSE p \in walkable : TRUE)]
    ELSE [kind |-> "graph", adjacency_list |-> <<>>]

\* base_costs of get_tile_cost, in hundredths
BaseCosts ==
    [asphalt |-> 100, concrete |-> 110, dirt |-> 150, grass |-> 200, cobblestone |-> 130]

\* WeightedGraph.get_tile_cost of a position of the grid, in millionths;
\* weather_penalty in millionths
GetTileCost(g, p, weather_penalty) ==
    LET info == Legend[TileAt(g, p)]
        surface == IF "superficie" \in DOMAIN info THEN info.superficie ELSE "asphalt"
        base_cost == IF surface \in DOMAIN BaseCosts THEN BaseCosts[surface] ELSE 100
        tile_cost == IF TileTipo(info) = "park" THEN (base_cost * 80) \div 100
                     ELSE base_cost
    IN  (tile_cost * (SU + weather_penalty)) \div 100

\* the result of a path search that found no path
NoPath == [kind |-> "none"]

\* PathFinder.a_star: no path when an end is not walkable; otherwise the search
\* starts by building g_costs, a dict keyed by start, which raises
AStar(g, start, goal, weather_penalty) ==
    IF ~GraphIsWalkable(g, start) \/ ~GraphIsWalkable(g, goal) THEN NoPath
    ELSE [kind |-> PositionHash(start)]

\* PathFinder.dijkstra: as a_star, raising at distances, keyed by start
Dijkstra(g, start, goal, weather_penalty) ==
    IF ~GraphIsWalkable(g, start) \/ ~GraphIsWalkable(g, goal) THEN NoPath
    ELSE [kind |-> PositionHash(start)]

\* PathFinder.bfs: as a_star, raising at visited, a set holding start
BFS(g, start, goal) ==
    IF ~GraphIsWalkable(g, start) \/ ~GraphIsWalkable(g, goal) THEN NoPath
    ELSE [kind |-> PositionHash(start)]

\* an exception leaves the agent's update; what the update did before stays
CPURaise(s, k, error) == [s EXCEPT !.c[k].raised = error]

\* HardAI._calculate_optimal_path: a_star, then bfs when a_star found no path; no
\* search returns a path, so current_path stays empty
HardCalculateOptimalPath(s, k, target) ==
    LET wp == GetStaminaPenalty(s.w)
        path == AStar(s.g, s.c[k].pos, target, wp)
        fallback == BFS(s.g, s.c[k].pos, target)
    IN  IF path.kind = "TypeError" THEN CPURaise(s, k, "TypeError")
        ELSE IF fallback.kind = "TypeError" THEN CPURaise(s, k, "TypeError")
        ELSE [s EXCEPT !.c[k].current_order = NoOrder, !.c[k].action_state = "idle"]

\* HardAI._find_optimal_order: an order is skipped when a_star finds no path to
\* its pickup; the result is NoOrder, or "TypeError" when a search raises
HardFindOptimalOrder(s, k, ids) ==
    LET wp == GetStaminaPenalty(s.w) IN
    IF \E i \in 1..Len(ids) :
            AStar(s.g, s.c[k].pos, s.o[ids[i]].pickup, wp).kind = "TypeError"
    THEN "TypeError"
    ELSE NoOrder

\* HardAI._replan_route
HardReplanRoute(s, k) ==
    LET c == s.c[k]
        valid == CPUValidOrders(s, k)
    IN  IF c.current_order # NoOrder /\ c.action_state = "moving_to_pickup"
        THEN HardCalculateOptimalPath(s, k, s.o[c.current_order].pickup)
        ELSE IF c.inventory # <<>>
        THEN HardCalculateOptimalPath(s, k, s.o[c.inventory[1]].dropoff)
        ELSE IF valid = <<>> THEN s
        ELSE IF HardFindOptimalOrder(s, k, valid) = "TypeError"
        THEN CPURaise(s, k, "TypeError")
        ELSE s

\* HardAI._plan_rest_route
HardPlanRestRoute(s, k) ==
    LET park == FindNearestPark(s, k) IN
    IF park = <<>> THEN s ELSE HardCalculateOptimalPath(s, k, park[1])

\* HardAI.make_decision: the first decision builds the graph and returns; with a
\* pathfinder, the agent plans a rest when low on stamina, interacts when it
\* carries an order, and replans: its path is always empty and it has no current
\* order, so _follow_planned_path returns at once and every decision replans
HardMakeDecision(s, k, dt) ==
    LET c == s.c[k]
        graph == BuildGraph(s.g)
    IN  IF ~c.pathfinder
        THEN IF graph.kind = "TypeError" THEN CPURaise(s, k, "TypeError")
             ELSE [s EXCEPT !.c[k].pathfinder = TRUE]
        ELSE IF c.stamina < EXHAUSTION_RECOVERY_THRESHOLD * SU /\ c.inventory = <<>>
        THEN HardPlanRestRoute(s, k)
        ELSE HardReplanRoute(IF c.inventory # <<>> THEN CPUInteractAtPosition(s, k)
                             ELSE s, k)

\* make_decision of the agent's strategy: the set of states it can end in
MakeDecision(s, k, dt) ==
    IF s.c[k].difficulty = "easy" THEN EasyMakeDecision(s, k, dt)
    ELSE IF s.c[k].difficulty = "medium" THEN {MediumMakeDecision(s, k, dt)}
    ELSE {HardMakeDecision(s, k, dt)}

\* CPUPlayer.update: the set of states it can end in
CPUUpdate(s, k, dt) ==
    LET s1 == [s EXCEPT !.c[k].decision_timer = SatAdd(@, dt, DECISION_INTERVAL_MS),
                        !.c[k].time_since_last_move = SatAdd(@, dt, RECOVERY_DELAY_MS)]
        s2 == CPUUpdateStaminaRecovery(s1, k, dt)
        s3 == [s2 EXCEPT !.c[k].is_exhausted =
                    IF s2.c[k].stamina <= 0 THEN TRUE
                    ELSE IF s2.c[k].stamina >= EXHAUSTION_RECOVERY_THRESHOLD * SU
                         THEN FALSE ELSE @]
        s4 == CPUCleanExpiredOrders(s3, k)
    IN  IF s4.c[k].decision_timer >= DECISION_INTERVAL_MS /\ ~s4.c[k].is_exhausted
        THEN {IF d.c[k].raised # "none" THEN d ELSE [d EXCEPT !.c[k].decision_timer = 0] :
                d \in MakeDecision(s4, k, dt)}
        ELSE {s4}

(***************************************************************************)
(* World load (initialize_game_data) and the worlds of the model           *)
(***************************************************************************)
\* bounds of the model
FrameSeconds == 6
MaxGameSeconds == 24

Job(pickup, dropoff, payout, duration_s, weight, priority, release_s) ==
    [pickup |-> pickup, dropoff |-> dropoff, payout |-> payout,
     duration |-> duration_s * 1000, weight |-> weight, priority |-> priority,
     release_time |-> release_s * 1000,
     status |-> "waiting_release", created_at |-> 0, accepted_at |-> 0]

\* a 3 x 5 city: the human starts at (2, 2), a CPU agent at (2, 4)
StreetTiles ==
    << <<"B", "B", "B">>,
       <<"B", "B", "B">>,
       <<"B", "C", "C">>,
       <<"B", "B", "C">>,
       <<"B", "P", "C">> >>

\* three orders of weight 4 with the three priorities, 18 s or 24 s each
StreetJobs ==
    << Job(Pos(2, 2), Pos(2, 3), 150, 18, 4, 0, 0),
       Job(Pos(2, 4), Pos(2, 3), 120, 18, 4, 2, 0),
       Job(Pos(2, 2), Pos(2, 2), 200, 24, 4, 1, 0) >>

RECURSIVE InsertByRelease(_, _, _)
\* sorted(..., key=release_time) is stable: id goes after every id released no later
InsertByRelease(jobs, sorted, id) ==
    IF sorted # <<>> /\ jobs[sorted[Len(sorted)]].release_time > jobs[id].release_time
    THEN Append(InsertByRelease(jobs, SubSeq(sorted, 1, Len(sorted) - 1), id),
                sorted[Len(sorted)])
    ELSE Append(sorted, id)

RECURSIVE SortedByRelease(_, _)
SortedByRelease(jobs, n) ==
    IF n = 0 THEN <<>> ELSE InsertByRelease(jobs, SortedByRelease(jobs, n - 1), n)

CommonPositions ==
    <<Pos(2, 2), Pos(3, 3), Pos(1, 1), Pos(4, 4), Pos(5, 5),
      Pos(2, 3), Pos(3, 2), Pos(1, 2), Pos(2, 1)>>

\* CourierQuest._find_valid_starting_position
FindValidStartingPosition(g) ==
    LET common == SelectSeq(CommonPositions, LAMBDA p : IsPositionWalkable(g, p))
        scan == {p \in {Pos(x, y) : x \in 0..(Min(10, CityWidth(g)) - 1),
                                    y \in 0..(Min(10, CityHeight(g)) - 1)} :
                    IsPositionWalkable(g, p)}
    IN  IF common # <<>> THEN Head(common)
        ELSE IF scan # {}
             THEN CHOOSE p \in scan :
                    \A q \in scan : p.y < q.y \/ (p.y = q.y /\ p.x <= q.x)
             ELSE Pos(1, 1)

\* _reset_game_state followed by initialize_game_data
NewGame(tiles, jobs, goal, max_time_s) ==
    LET g0 == [game_state |-> "playing", game_over |-> FALSE, victory |-> FALSE,
               score_saved |-> FALSE, score_records |-> 0, game_time |-> 0,
               player_pos |-> Pos(2, 2), stamina |-> MAX_STAMINA * SU,
               reputation |-> START_REPUTATION, money |-> 0,
               delivery_streak |-> 0, last_delivery_was_clean |-> TRUE,
               pending_orders |-> <<>>, available_orders |-> <<>>,
               inventory |-> <<>>, completed_orders |-> <<>>,
               time_since_last_move |-> 0, last_move_time |-> 0,
               tiles |-> tiles, goal |-> goal, max_game_time |-> max_time_s * 1000,
               save_slot |-> <<>>]
    IN  [g |-> [g0 EXCEPT !.player_pos = FindValidStartingPosition(g0),
                          !.pending_orders = SortedByRelease(jobs, Len(jobs))],
         o |-> [id \in 1..Len(jobs) |-> FixOrderPositions(g0, jobs[id])]]

API_GOAL == 3000

InitWorld(tiles, jobs, goal, max_time_s, difficulties) ==
    LET n == NewGame(tiles, jobs, goal, max_time_s) IN
    /\ game = n.g
    /\ orders = n.o
    /\ weather = WeatherInit
    /\ \E d \in difficulties : cpus = <<CPUInit(d)>>

Init == InitWorld(StreetTiles, StreetJobs, API_GOAL, MaxGameSeconds, {"easy", "medium"})

(***************************************************************************)
(* Saving and loading (save_game, load_game, systems/file_manager.py);     *)
(* save_slot is the content of saves/slot1.sav, empty while there is none  *)
(***************************************************************************)
\* the GameState that save_game builds, with the Order objects of its
\* collections as pickle writes them
Snapshot(s) ==
    [player_pos |-> s.g.player_pos, stamina |-> s.g.stamina,
     reputation |-> s.g.reputation, money |-> s.g.money,
     game_time |-> s.g.game_time, weather_time |-> s.w.time_in_current,
     current_weather |-> s.w.current_condition,
     weather_intensity |-> s.w.current_intensity,
     inventory |-> s.g.inventory, available_orders |-> s.g.available_orders,
     completed_orders |-> s.g.completed_orders, goal |-> s.g.goal,
     delivery_streak |-> s.g.delivery_streak,
     pending_orders |-> s.g.pending_orders, tiles |-> s.g.tiles,
     max_game_time |-> s.g.max_game_time, orders |-> s.o]

\* CourierQuest.save_game with save_game_with_validation; io_ok is whether the
\* file could be written
SaveGame(s, io_ok) ==
    IF io_ok THEN [s EXCEPT !.g.save_slot = <<Snapshot(s)>>] ELSE s

RECURSIVE EnqueueAll(_, _, _)
\* the enqueue loop of load_game
EnqueueAll(o, items, rest) ==
    IF rest = <<>> THEN items
    ELSE EnqueueAll(o, Enqueue(o, items, Head(rest)), Tail(rest))

\* CourierQuest.load_game with load_game_with_validation, followed by the
\* game_state assignment of the F9 handler; the orders of the loaded collections
\* are the objects of the file
LoadGame(s) ==
    IF s.g.save_slot = <<>> THEN s
    ELSE LET game_state == s.g.save_slot[1]
             loaded == Range(game_state.inventory) \cup Range(game_state.pending_orders)
                         \cup Range(game_state.available_orders)
                         \cup Range(game_state.completed_orders)
         IN  [s EXCEPT !.g.player_pos = game_state.player_pos,
                       !.g.stamina = game_state.stamina,
                       !.g.reputation = game_state.reputation,
                       !.g.money = game_state.money,
                       !.g.game_time = game_state.game_time,
                       !.g.inventory = game_state.inventory,
                       !.g.pending_orders = game_state.pending_orders,
                       !.g.available_orders =
                            EnqueueAll(game_state.orders, <<>>, game_state.available_orders),
                       !.g.completed_orders = game_state.completed_orders,
                       !.w.current_condition = game_state.current_weather,
                       !.w.current_intensity = game_state.weather_intensity,
                       !.w.time_in_current = game_state.weather_time,
                       !.g.tiles = game_state.tiles,
                       !.g.goal = game_state.goal,
                       !.g.max_game_time = game_state.max_game_time,
                       !.g.game_over = FALSE,
                       !.g.victory = FALSE,
                       !.g.game_state = "playing",
                       !.o = [id \in DOMAIN s.o |->
                                IF id \in loaded THEN game_state.orders[id] ELSE s.o[id]]]

(***************************************************************************)
(* The run loop and the key events                                         *)
(***************************************************************************)
SetState(s) ==
    /\ game' = s.g
    /\ orders' = s.o
    /\ cpus' = s.c
    /\ weather' = s.w

\* the random draws of a weather update: the next condition, its intensity
\* (the ends of uniform(0.4, 0.9)) and the burst (the ends of randint(25, 40))
WeatherDraws(w, dt) ==
    IF WeatherWillInitiate(w, dt)
    THEN LET from == IF w.transitioning THEN w.target_condition
                     ELSE w.current_condition
         IN  [condition : TransitionRow(from), intensity : {4000, 9000},
              burst : {25000, 40000}]
    ELSE {[condition |-> w.current_condition, intensity |-> w.current_intensity,
           burst |-> w.burst_duration]}

\* whether writing the score file can succeed or fail in this step
IoOutcomes(terminal) == IF terminal THEN BOOLEAN ELSE {TRUE}

RECURSIVE CPUsUpdateFrom(_, _, _)
\* every CPU agent's update, in list order: the set of states it can end in
CPUsUpdateFrom(S, k, dt) ==
    IF S = {} THEN {}
    ELSE LET any == CHOOSE x \in S : TRUE IN
         IF k > Len(any.c) THEN S
         ELSE CPUsUpdateFrom(UNION {CPUUpdate(x, k, dt) : x \in S}, k + 1, dt)

CPUsUpdate(s, dt) == CPUsUpdateFrom({s}, 1, dt)

\* one iteration of CourierQuest.run with the game on: handle_input, update, and
\* the update of the CPU agents
Frame(key, dt) ==
    /\ game.game_state = "playing"
    /\ ~game.game_over
    /\ \E rnd \in WeatherDraws(weather, dt) :
         \E s1 \in {HandleInput(St, key, dt)} :
           \E terminal \in {TerminalCondition(UpdateWorld(s1, dt, rnd)) # "none"} :
             \E io_ok \in IoOutcomes(terminal) :
               \E s2 \in CPUsUpdate(Update(s1, dt, rnd, io_ok), dt) : SetState(s2)

\* K_e
KeyInteract ==
    /\ game.game_state = "playing"
    /\ \E io_ok \in BOOLEAN : SetState(InteractAtPosition(St, io_ok))

\* K_RETURN in the orders overlay, the selection at index
KeyAcceptOrder(index) ==
    /\ game.game_state = "playing"
    /\ SetState(AcceptSelectedOrder(St, index))

\* K_p
KeySortPriority ==
    /\ game.game_state = "playing"
    /\ SetState(SortInventoryByPriority(St))

\* K_t
KeySortDeadline ==
    /\ game.game_state = "playing"
    /\ SetState(SortInventoryByDeadline(St))

\* K_l
KeySortDistance ==
    /\ game.game_state = "playing"
    /\ SetState(SortOrdersByDistance(St))

\* K_F5
KeySave ==
    /\ game.game_state = "playing"
    /\ \E io_ok \in BOOLEAN : SetState(SaveGame(St, io_ok))

\* K_F9
KeyLoad ==
    /\ game.game_state = "playing"
    /\ SetState(LoadGame(St))

KeyEvents ==
    \/ KeyInteract
    \/ \E index \in -1..MAX_SELECT_INDEX : KeyAcceptOrder(index)
    \/ KeySortPriority
    \/ KeySortDeadline
    \/ KeySortDistance

Next ==
    \/ \E key \in Keys : Frame(key, FrameSeconds * 1000)
    \/ KeyEvents

Spec == Init /\ [][Next]_vars

(***************************************************************************)
(* Properties                                                              *)
(***************************************************************************)
OrderIds == DOMAIN orders

Occurrences(seq, id) == Cardinality({i \in DOMAIN seq : seq[i] = id})

RECURSIVE SumOver(_, _, _)
SumOver(F(_), k, n) == IF k > n THEN 0 ELSE F(k) + SumOver(F, k + 1, n)

\* the number of places that hold order id: the pending queue, the pool, the
\* human's inventory and completed list, every CPU agent's inventory and
\* completed list
HolderCount(id) ==
    LET InCpu(k) == Occurrences(cpus[k].inventory, id)
                    + Occurrences(cpus[k].completed_orders, id)
    IN  Occurrences(game.pending_orders, id)
        + Occurrences(game.available_orders, id)
        + Occurrences(game.inventory, id)
        + Occurrences(game.completed_orders, id)
        + SumOver(InCpu, 1, Len(cpus))

\* duration - (game_time - created_at), not floored at 0
Remaining(id) == orders[id].duration - (game.game_time - orders[id].created_at)

\* C1: no order is held by more than one owner among the pending queue, the
\* pool, the human's inventory, each CPU agent's inventory and the completed
\* lists; a CPU pickup never adds an order somebody else already took
C1_SingleOwner == \A id \in OrderIds : HolderCount(id) <= 1

\* C2: every loaded order is always in at least one of the collections
\* (pending, pool, an inventory, completed, expired); the program keeps no
\* collection of expired orders, so the four kinds it has are counted
C2_NeverLost == \A id \in OrderIds : HolderCount(id) >= 1

\* C3: the weights in the human's inventory, and in every CPU agent's
\* inventory, sum to at most max_weight = 10
C3_WeightWithinCapacity ==
    /\ SumWeights(orders, game.inventory) <= 10
    /\ \A k \in DOMAIN cpus : SumWeights(orders, cpus[k].inventory) <= 10

\* the human carries 8 and stands on the pickup tile of a pool order of weight 4
C3_FullInventoryAtPickup ==
    /\ SumWeights(orders, game.inventory) = 8
    /\ \E id \in Range(game.available_orders) :
         /\ orders[id].weight = 4
         /\ orders[id].pickup = game.player_pos
         /\ orders[id].status = "available"

\* C6: every agent's money is non-negative, never decreases from one state to
\* the next, and changes only in a step in which the agent completes a delivery
C6_MoneyOnlyGrowsByDelivery ==
    [][/\ game.money >= 0
       /\ game'.money >= game.money
       /\ game'.money # game.money
            => Len(game'.completed_orders) = Len(game.completed_orders) + 1
       /\ \A k \in DOMAIN cpus :
            /\ cpus[k].money >= 0
            /\ cpus'[k].money >= cpus[k].money
            /\ cpus'[k].money # cpus[k].money
                 => Len(cpus'[k].completed_orders)
                        = Len(cpus[k].completed_orders) + 1]_vars

\* the human and a CPU agent both have been paid for a delivery
C6_BothPaid ==
    /\ game.money > 0
    /\ game.completed_orders # <<>>
    /\ \E k \in DOMAIN cpus : cpus[k].money > 0

\* C9: the pool is ordered by descending priority after any sequence of
\* releases, pickups, expirations and sort commands, sort-by-distance included
C9_PoolByDescendingPriority ==
    \A i, j \in DOMAIN game.available_orders :
        i < j => orders[game.available_orders[i]].priority
                    >= orders[game.available_orders[j]].priority

\* C10: after every tick no order with remaining time <= 0 is left in the pool
\* or in any inventory, the human's or a CPU agent's
C10_ExpiredRemovedSameTick ==
    /\ \A id \in Range(game.available_orders) \cup Range(game.inventory) :
         Remaining(id) > 0
    /\ \A k \in DOMAIN cpus : \A id \in Range(cpus[k].inventory) : Remaining(id) > 0

(***************************************************************************)
(* The release step: a city with more orders than the pool admits          *)
(***************************************************************************)
NumBulkJobs == 12
BulkFrameSeconds == 3
BulkGameSeconds == 27

\* a 6 x 5 city: the human's start tile is closed in, the pickups are in the
\* far corner
BulkTiles ==
    << <<"B", "B", "B", "B", "B", "C">>,
       <<"B", "B", "B", "B", "B", "B">>,
       <<"B", "B", "C", "B", "B", "B">>,
       <<"B", "B", "B", "B", "B", "B">>,
       <<"B", "B", "C", "B", "B", "B">> >>

\* two orders due at once, the others after 4 s; 30 s each, of weight 4 or 5;
\* the first is picked up on the human's tile, the others in the far corner
BulkJobs ==
    [id \in 1..NumBulkJobs |->
        Job(IF id = 1 THEN Pos(2, 2) ELSE Pos(5, 0), Pos(2, 4),
            100 + 10 * id, 30, 4 + (id % 2), id % 3,
            IF id <= 2 THEN 0 ELSE 4)]

InitRelease == InitWorld(BulkTiles, BulkJobs, API_GOAL, BulkGameSeconds, {"medium"})

\* the human's tile is closed in: one arrow key stands for the four
BulkKeys == {"none", "right"}

NextRelease ==
    \/ \E key \in BulkKeys : Frame(key, BulkFrameSeconds * 1000)
    \/ KeyEvents

SpecRelease == InitRelease /\ [][NextRelease]_vars

RECURSIVE DueCount(_, _)
\* the number of orders at the head of the pending queue with release_time <= t
DueCount(pending, t) ==
    IF pending # <<>> /\ orders[Head(pending)].release_time <= t
    THEN 1 + DueCount(Tail(pending), t)
    ELSE 0

\* the quota with the thresholds cap/3 and cap/2 taken as fractions
QuotaFraction(pool) ==
    IF pool * 3 < 10 THEN 3 ELSE IF pool * 2 < 10 THEN 2 ELSE IF pool < 10 THEN 1 ELSE 0

\* the quota with the thresholds rounded down: 3 below 3, 2 below 5, 1 below 10
QuotaFloor(pool) ==
    IF pool < 3 THEN 3 ELSE IF pool < 5 THEN 2 ELSE IF pool < 10 THEN 1 ELSE 0

\* the orders that left the pending queue in this step
ReleasedInStep == Len(game.pending_orders) - Len(game'.pending_orders)

\* C7 as stated: a tick admits exactly min(k, d) orders, k = 3 if the pool holds
\* fewer than cap/3 = 10/3 orders, 2 if fewer than cap/2, 1 if fewer than cap
C7_ReleaseQuotaFraction ==
    [][IF game'.game_time # game.game_time
       THEN ReleasedInStep =
                Min(QuotaFraction(Len(game.available_orders)),
                    DueCount(game.pending_orders, game'.game_time))
       ELSE ReleasedInStep = 0]_vars

\* C7 amended: a tick admits exactly min(k, d) orders, k = 3 if the pool holds
\* fewer than 3 = floor(cap/3) orders, 2 if fewer than 5 = floor(cap/2), 1 if
\* fewer than cap = 10, and 0 otherwise
C7_ReleaseQuotaFloor ==
    [][IF game'.game_time # game.game_time
       THEN ReleasedInStep =
                Min(QuotaFloor(Len(game.available_orders)),
                    DueCount(game.pending_orders, game'.game_time))
       ELSE ReleasedInStep = 0]_vars

\* a tick has found three orders in the pool and more than two due, and has
\* admitted two: the pool of 5 goes back to 3 by two acceptances, then to 5
C7_TwoAdmittedAtThree ==
    /\ Len(game.available_orders) = 5
    /\ Len(game.inventory) = 2
    /\ Len(game.pending_orders) = NumBulkJobs - 7
    /\ game.game_time = 3 * BulkFrameSeconds * 1000

\* C8: the pool never holds more than 10 orders
C8_PoolAtMostTen == Len(game.available_orders) <= 10

\* the pool holds 10 orders and the next pending order is due
C8_FullPoolAndDueOrder ==
    /\ Len(game.available_orders) = 10
    /\ game.pending_orders # <<>>
    /\ orders[Head(game.pending_orders)].release_time <= game.game_time
    /\ game.game_state = "playing"
    /\ ~game.game_over

(***************************************************************************)
(* Reputation: a Medium agent with a row of orders on its own tile         *)
(***************************************************************************)
NumDoorstepJobs == 8
DoorstepFrameSeconds == 1
DoorstepGameSeconds == 20

\* orders picked up and dropped off on the CPU agent's start tile, 18 s each
DoorstepJobs ==
    [id \in 1..NumDoorstepJobs |->
        Job(Pos(2, 4), Pos(2, 4), 100 + 10 * id, 18, 4 + (id % 2), id % 3, 0)]

InitDoorstep ==
    InitWorld(BulkTiles, DoorstepJobs, API_GOAL, DoorstepGameSeconds, {"medium"})

NextDoorstep ==
    \/ \E key \in BulkKeys : Frame(key, DoorstepFrameSeconds * 1000)
    \/ KeyEvents

SpecDoorstep == InitDoorstep /\ [][NextDoorstep]_vars

\* C5: the reputation of the human and of every CPU agent stays within
\* [0, 100] in every reachable state
C5_ReputationInRange ==
    /\ game.reputation >= 0
    /\ game.reputation <= 100
    /\ \A k \in DOMAIN cpus : cpus[k].reputation >= 0 /\ cpus[k].reputation <= 100

(***************************************************************************)
(* Stamina: an Easy agent on short frames                                  *)
(***************************************************************************)
StaminaFrameMs == 500
StaminaGameSeconds == 29

\* a 3 x 5 city whose only walkable tiles are the two start tiles
BoxTiles ==
    << <<"B", "B", "B">>,
       <<"B", "B", "B">>,
       <<"B", "B", "C">>,
       <<"B", "B", "B">>,
       <<"B", "B", "C">> >>

\* one order of weight 3 from the CPU agent's start tile to the human's
BoxJobs == << Job(Pos(2, 4), Pos(2, 2), 150, 18, 3, 0, 0) >>

InitStamina == InitWorld(BoxTiles, BoxJobs, API_GOAL, StaminaGameSeconds, {"easy"})

NextStamina ==
    \/ \E key \in BulkKeys : Frame(key, StaminaFrameMs)
    \/ KeyEvents

SpecStamina == InitStamina /\ [][NextStamina]_vars

\* C4: the stamina of the human and of every CPU agent stays within
\* [0, max_stamina = 100]; no executed move leaves it below 0
C4_StaminaInRange ==
    /\ game.stamina >= 0
    /\ game.stamina <= 100 * SU
    /\ \A k \in DOMAIN cpus : cpus[k].stamina >= 0 /\ cpus[k].stamina <= 100 * SU

(***************************************************************************)
(* Scoring: the delivery of an order under way, over the streaks, payouts  *)
(* and reputations a session can have reached                              *)
(***************************************************************************)
MaxStreak == 9
ScoreFrameSeconds == 1
ScoreRunSeconds == 3

\* the game times of the deliveries, in seconds: 240 s and 120 s of 300 s remain
ScoreTimes == {60, 180}
ScorePayouts == {100, 150}
ScoreReputations == {70, 99}

\* two orders of five minutes released at time 0, one to the human's tile and
\* one to the CPU agent's
ScoreJobs(payout) ==
    << Job(Pos(2, 2), Pos(2, 2), payout, 300, 1, 0, 0),
       Job(Pos(2, 4), Pos(2, 4), payout, 300, 1, 0, 0) >>

\* a session at game time t0 in which each agent stands on the dropoff tile of
\* the order it carries, with the streak and reputation earlier deliveries left
InitScore ==
    \E t0 \in ScoreTimes, streak \in 0..MaxStreak, rep \in ScoreReputations,
       payout \in ScorePayouts, d \in {"easy", "medium"} :
        LET n == NewGame(BoxTiles, ScoreJobs(payout), API_GOAL, t0 + ScoreRunSeconds)
        IN  /\ game = [n.g EXCEPT !.game_time = t0 * 1000,
                                  !.pending_orders = <<>>,
                                  !.inventory = <<1>>,
                                  !.delivery_streak = streak,
                                  !.reputation = rep]
            /\ orders = [n.o EXCEPT ![1].status = "picked_up",
                                    ![2].status = "picked_up"]
            /\ cpus = << [CPUInit(d) EXCEPT !.inventory = <<2>>,
                                            !.current_order = 2,
                                            !.action_state = "moving_to_dropoff",
                                            !.delivery_streak = streak,
                                            !.reputation = rep] >>
            /\ weather = WeatherInit

NextScore ==
    \/ \E key \in BulkKeys : Frame(key, ScoreFrameSeconds * 1000)
    \/ KeyEvents

SpecScore == InitScore /\ [][NextScore]_vars

\* the human delivers order id in this step
HumanDelivers(id) ==
    /\ Occurrences(game.inventory, id) > 0
    /\ game'.completed_orders = Append(game.completed_orders, id)

\* CPU agent k delivers order id in this step
CPUDelivers(k, id) ==
    /\ Occurrences(cpus[k].inventory, id) > 0
    /\ cpus'[k].completed_orders = Append(cpus[k].completed_orders, id)

\* the multiplier of the payout rule, in 1/100: the time left of the order's
\* duration, counted from its release, at game time now, and the streak after
\* the delivery
RuleMultiplier(ord, now, streak_after) ==
    LET left == ord.duration - (now - ord.created_at)
        m == IF left * 100 > ord.duration * 66 THEN 110
             ELSE IF left <= 0 THEN 50 ELSE 100
    IN  m + (IF streak_after >= 3 THEN 5 * Min(streak_after \div 3, 4) ELSE 0)

\* C11: every delivery pays floor(base_payout * m), where m is 1.1 with more
\* than 66% of the duration left, 0.5 past the deadline and 1.0 otherwise, plus
\* 0.05 * min(streak // 3, 4) once the streak after the delivery is at least 3;
\* no payout exceeds floor(1.3 * base_payout)
C11_PayoutIsFloorOfProduct ==
    [][/\ \A id \in OrderIds :
            HumanDelivers(id) =>
                /\ game'.money - game.money =
                     (orders[id].payout *
                        RuleMultiplier(orders[id], game.game_time,
                                       game'.delivery_streak)) \div 100
                /\ game'.money - game.money <= (orders[id].payout * 130) \div 100
       /\ \A k \in DOMAIN cpus : \A id \in OrderIds :
            CPUDelivers(k, id) =>
                /\ cpus'[k].money - cpus[k].money =
                     (orders[id].payout *
                        RuleMultiplier(orders[id], game'.game_time,
                                       cpus'[k].delivery_streak)) \div 100
                /\ cpus'[k].money - cpus[k].money <= (orders[id].payout * 130) \div 100
      ]_vars

\* C12: a delivery by any agent of an order whose remaining time counted from
\* its release (duration - (game_time - created_at)) is at most 0 is late: it
\* pays half, costs 3 reputation and resets the streak to 0
C12_LateFromRelease ==
    [][/\ \A id \in OrderIds :
            (/\ HumanDelivers(id)
             /\ orders[id].duration - (game.game_time - orders[id].created_at) <= 0)
            => /\ game'.money - game.money = (orders[id].payout * 50) \div 100
               /\ game'.reputation = game.reputation - LATE_PENALTY
               /\ game'.delivery_streak = 0
       /\ \A k \in DOMAIN cpus : \A id \in OrderIds :
            (/\ CPUDelivers(k, id)
             /\ orders[id].duration - (game'.game_time - orders[id].created_at) <= 0)
            => /\ cpus'[k].money - cpus[k].money = (orders[id].payout * 50) \div 100
               /\ cpus'[k].reputation = cpus[k].reputation - LATE_PENALTY
               /\ cpus'[k].delivery_streak = 0
      ]_vars

\* the time left of order id's duration at game time now, counted from release
LeftAt(id, now) == orders[id].duration - (now - orders[id].created_at)

\* C13: for any agent, a delivery that is neither early (more than 66% of the
\* duration left) nor late adds exactly 1 to the agent's streak, and every
\* delivery with time left raises the agent's reputation by exactly 2, capped
\* at 100
C13_OnTimeStreakAndReputation ==
    [][/\ \A id \in OrderIds :
            HumanDelivers(id) =>
                LET left == LeftAt(id, game.game_time) IN
                /\ (left > 0 /\ ~(left * 100 > orders[id].duration * 66))
                     => game'.delivery_streak = game.delivery_streak + 1
                /\ left > 0
                     => game'.reputation = Min(100, game.reputation + ONTIME_REWARD)
       /\ \A k \in DOMAIN cpus : \A id \in OrderIds :
            CPUDelivers(k, id) =>
                LET left == LeftAt(id, game'.game_time) IN
                /\ (left > 0 /\ ~(left * 100 > orders[id].duration * 66))
                     => cpus'[k].delivery_streak = cpus[k].delivery_streak + 1
                /\ left > 0
                     => cpus'[k].reputation = Min(100, cpus[k].reputation + ONTIME_REWARD)
      ]_vars

\* the human delivers, at game time 180 s, the order of 5 minutes released at 0
Scenario2Delivery ==
    /\ game.game_time = 180 * 1000
    /\ orders[1].duration = 5 * 60 * 1000
    /\ orders[1].created_at = 0
    /\ HumanDelivers(1)

\* C14 as stated: that delivery is scored with a multiplier of at least 1.1 and
\* +2 reputation, whatever the streak before it
C14_EarlyAt180 ==
    [][Scenario2Delivery =>
          /\ game'.money - game.money >= (orders[1].payout * 110) \div 100
          /\ game'.reputation = Min(100, game.reputation + ONTIME_REWARD)
      ]_vars

\* C14: that delivery, with 120 s of 300 s (40%) left, is on time but not
\* early: the streak grows by 1, reputation by 2 capped at 100, the order pays
\* at least its base payout, and it pays floor(1.1 * base) or more exactly when
\* the streak before it was at least 5
C14_OnTimeAt180 ==
    [][Scenario2Delivery =>
          /\ game'.delivery_streak = game.delivery_streak + 1
          /\ game'.reputation = Min(100, game.reputation + ONTIME_REWARD)
          /\ game'.money - game.money >= orders[1].payout
          /\ (game'.money - game.money >= (orders[1].payout * 110) \div 100)
               <=> (game.delivery_streak >= 5)
      ]_vars

\* the order of scenario 2 has been delivered at 180 s by a human without a
\* streak and was paid at its base payout
C14_PaidBaseAt180 ==
    /\ game.game_time = 180 * 1000
    /\ game.completed_orders = <<1>>
    /\ orders[1].duration = 5 * 60 * 1000
    /\ game.delivery_streak = 1
    /\ game.money = orders[1].payout
    /\ game.reputation = 72

\* C15: scoring the same order at the same game time twice pays the same: the
\* payout of a second call of the delivery scoring on an order equals that of
\* the first, whatever the first call changed (streak, reputation)
C15_ScoringTwicePaysTheSame ==
    /\ \A id \in Range(game.inventory) :
          LET first == HumanDeliver(St, id, TRUE)
              second == HumanDeliver(first, id, TRUE)
          IN  second.g.money - first.g.money = first.g.money - game.money
    /\ \A k \in DOMAIN cpus : \A id \in Range(cpus[k].inventory) :
          LET first == CPUDeliverOrder(St, k, id)
              second == CPUDeliverOrder(first, k, id)
          IN  second.c[k].money - first.c[k].money = first.c[k].money - cpus[k].money

(***************************************************************************)
(* Terminal conditions: a city whose goal one delivery reaches, with short *)
(* orders that expire in the pool.  The session has no CPU agent, as in    *)
(* game.py, which creates none.                                            *)
(***************************************************************************)
NumShortJobs == 10
GoalFrameSeconds == 3
GoalGameSeconds == 18

\* the goal of the city's map data
SmallGoal == 300

\* order 1, of 30 s, from the human's tile to the human's tile, pays the goal;
\* the others, from (2, 4), last one frame
GoalJobs ==
    [id \in 1..(NumShortJobs + 1) |->
        IF id = 1 THEN Job(Pos(2, 2), Pos(2, 2), SmallGoal, 30, 5, 0, 0)
        ELSE Job(Pos(2, 4), Pos(2, 2), 50, GoalFrameSeconds, 5, 0, 0)]

InitGoal ==
    LET n == NewGame(BoxTiles, GoalJobs, SmallGoal, GoalGameSeconds) IN
    /\ game = n.g
    /\ orders = n.o
    /\ weather = WeatherInit
    /\ cpus = <<>>

NextGoal ==
    \/ \E key \in BulkKeys : Frame(key, GoalFrameSeconds * 1000)
    \/ KeyEvents

SpecGoal == InitGoal /\ [][NextGoal]_vars

\* C16: whenever a delivery by the human brings money to the goal or above,
\* victory and game_over are both set when the interaction returns, and at the
\* end of every tick with money at or above the goal the game is over with
\* victory set
C16_VictoryAtGoal ==
    [][/\ \A id \in OrderIds :
            (HumanDelivers(id) /\ game'.money >= game'.goal)
            => (game'.victory /\ game'.game_over)
       /\ (game'.game_time # game.game_time /\ game'.money >= game'.goal)
            => (game'.victory /\ game'.game_over)
      ]_vars

\* C17: a session writes at most one score record, whichever terminal
\* conditions fire and in whatever order; once a score is recorded, a further
\* call of save_score or of update (a tick) writes no record and changes
\* nothing
C17_OneScoreRecord ==
    /\ game.score_records <= 1
    /\ game.score_records >= 1 =>
         /\ game.score_saved
         /\ \A io_ok \in BOOLEAN :
              SaveScore(St, io_ok) = [ok |-> TRUE, s |-> St]
         /\ \A dt \in {GoalFrameSeconds * 1000, FrameSeconds * 1000} :
              \A rnd \in WeatherDraws(weather, dt) : \A io_ok \in BOOLEAN :
                 Update(St, dt, rnd, io_ok) = St

\* the score of a victory by delivery has been recorded
C17_VictoryRecorded ==
    /\ game.score_records = 1
    /\ game.score_saved
    /\ game.victory
    /\ game.money >= game.goal
    /\ game.game_state = "game_over"

(***************************************************************************)
(* Exhaustion: a session in which both agents have just walked their       *)
(* stamina down to 0, followed for less time than stamina needs to recover *)
(* to 30                                                                   *)
(***************************************************************************)
ExhaustedFrameSeconds == 1
ExhaustedGameSeconds == 5

\* the street city without orders; the move that took the last stamina has just
\* been made (time_since_last_move = 0), and the CPU agent's update has not yet
\* run since, so its is_exhausted flag is still unset
InitExhausted ==
    LET n == NewGame(StreetTiles, <<>>, API_GOAL, ExhaustedGameSeconds) IN
    /\ game = [n.g EXCEPT !.stamina = 0]
    /\ orders = n.o
    /\ weather = WeatherInit
    /\ cpus = << [CPUInit("easy") EXCEPT !.stamina = 0] >>

NextExhausted ==
    \/ \E key \in Keys : Frame(key, ExhaustedFrameSeconds * 1000)
    \/ KeyEvents

SpecExhausted == InitExhausted /\ [][NextExhausted]_vars

\* C18: once an agent's stamina has reached 0, no move of that agent is
\* executed until its stamina has recovered to 30 or more.  Every behaviour of
\* SpecExhausted starts with both agents at 0: the human moves on the stamina
\* it has before the step, a CPU agent on that stamina plus the recovery of the
\* step, which is what the move left plus the cost of the move
C18_NoMoveUntilThirty ==
    [][/\ game'.player_pos # game.player_pos
            => game.stamina >= EXHAUSTION_RECOVERY_THRESHOLD * SU
       /\ \A k \in DOMAIN cpus :
            cpus'[k].pos # cpus[k].pos
            => cpus'[k].stamina + CPUCalculateStaminaCost(St, k)
                  >= EXHAUSTION_RECOVERY_THRESHOLD * SU
      ]_vars

\* C19: a move is executed only when the target is in bounds and the agent's
\* stamina is above 0 and at least the cost of the move; a move on stamina
\* equal to the cost leaves 0, and from stamina 0 no move is executed.  The
\* human moves on the stamina it has before the step; a CPU agent has, when it
\* moves, what the move left plus the cost of the move
C19_MoveNeedsStaminaForCost ==
    [][/\ game'.player_pos # game.player_pos
            => /\ InBounds(game, game'.player_pos)
               /\ game.stamina > 0
               /\ game.stamina >= CalculateStaminaCost(St)
               /\ game.stamina = CalculateStaminaCost(St) => game'.stamina = 0
       /\ \A k \in DOMAIN cpus :
            cpus'[k].pos # cpus[k].pos
            => /\ InBounds(game, cpus'[k].pos)
               /\ cpus[k].stamina > 0
               /\ cpus'[k].stamina >= 0
      ]_vars

\* every position of the city
CityPositions == {Pos(x, y) : x \in 0..(CityWidth(game) - 1), y \in 0..(CityHeight(game) - 1)}

\* C20: no agent, having started on a walkable tile, is ever on a tile the
\* legend flags as blocked; the human's move check, the CPU agents' move check
\* and the walkability test of the Hard tier's graph accept a tile of the city
\* exactly when it is not flagged blocked
C20_NeverOnBlockedTile ==
    /\ ~Legend[TileAt(game, game.player_pos)].blocked
    /\ \A k \in DOMAIN cpus : ~Legend[TileAt(game, cpus[k].pos)].blocked
    /\ \A p \in CityPositions :
         /\ IsPositionWalkable(game, p) <=> ~Legend[TileAt(game, p)].blocked
         /\ CPUIsValidMove(St, p) <=> ~Legend[TileAt(game, p)].blocked
         /\ GraphIsWalkable(game, p) <=> ~Legend[TileAt(game, p)].blocked

(***************************************************************************)
(* Sorting: the three sorts on the lists a session can hold, with the keys *)
(* of the orders drawn from three classes so that ties occur               *)
(***************************************************************************)
MaxSortLen == 4
SortFrameSeconds == 3
SortGameSeconds == 3

SortClasses == 0..2

\* order i <= n, of weight 2, is carried by the human and has the priority, the
\* duration and the pickup tile of its class; order n + i, of weight 3, waits in
\* the pool with priority 0 (the pool is filled in priority order) and the
\* pickup tile of the same class
SortJobs(n, class) ==
    [id \in 1..(2 * n) |->
        LET k == IF id <= n THEN class[id] ELSE class[id - n]
            pickup == Pos(2, 2 + ((k + 1) % 3))
        IN  IF id <= n
            THEN Job(pickup, Pos(1, 2), 100, 18 + 6 * ((k + 2) % 3), 2, k, 0)
            ELSE Job(pickup, Pos(1, 2), 100, 30, 3, 0, 0)]

InitSort ==
    \E n \in 0..MaxSortLen : \E class \in [1..n -> SortClasses] :
        LET g == NewGame(StreetTiles, SortJobs(n, class), API_GOAL, SortGameSeconds)
        IN  /\ game = [g.g EXCEPT !.pending_orders = <<>>,
                                  !.inventory = [i \in 1..n |-> i],
                                  !.available_orders = [i \in 1..n |-> n + i]]
            /\ orders = [id \in 1..(2 * n) |->
                            [g.o[id] EXCEPT !.status = IF id <= n THEN "picked_up"
                                                       ELSE "available"]]
            /\ weather = WeatherInit
            /\ cpus = <<>>

\* the keys held in a frame: none, or the one that moves the reference position
SortMoveKeys == {"none", "left"}

NextSort ==
    \/ \E key \in SortMoveKeys : Frame(key, SortFrameSeconds * 1000)
    \/ KeyEvents

SpecSort == InitSort /\ [][NextSort]_vars

\* the place of element i in a stable sort by ascending keys
StableRank(keys, i) ==
    Cardinality({j \in DOMAIN keys : keys[j] < keys[i] \/ (keys[j] = keys[i] /\ j < i)}) + 1

\* seq in ascending order of keys (keys[i] is the key of seq[i]); elements with
\* equal keys keep their order
StableSortByKeys(seq, keys) ==
    [r \in 1..Len(seq) |-> seq[CHOOSE i \in 1..Len(seq) : StableRank(keys, i) = r]]

\* the lists of orders the session holds
SessionLists == {game.inventory, game.available_orders}

\* C21: each of the three sorts returns a list of the length of its input that
\* holds the same orders, in the order a stable sort by the key gives: priority
\* descending, time remaining at game_time ascending, Manhattan distance of the
\* pickup to the reference position ascending
C21_SortsAreStableSorts ==
    \A seq \in SessionLists :
        /\ QuicksortByPriority(orders, seq) =
             StableSortByKeys(seq, [i \in DOMAIN seq |-> 0 - orders[seq[i]].priority])
        /\ MergesortByDeadline(orders, seq, game.game_time) =
             StableSortByKeys(seq, [i \in DOMAIN seq |-> Max(0, Remaining(seq[i]))])
        /\ InsertionSortByDistance(orders, seq, game.player_pos) =
             StableSortByKeys(seq, [i \in DOMAIN seq |->
                 ManhattanDistance(orders[seq[i]].pickup, game.player_pos)])
        /\ \A id \in OrderIds :
             /\ Occurrences(QuicksortByPriority(orders, seq), id) = Occurrences(seq, id)
             /\ Occurrences(MergesortByDeadline(orders, seq, game.game_time), id)
                  = Occurrences(seq, id)
             /\ Occurrences(InsertionSortByDistance(orders, seq, game.player_pos), id)
                  = Occurrences(seq, id)

\* the human's four orders, picked up in the order 1, 2, 3, 4 with two equal
\* priorities among them, have been sorted by priority into another order
C21_InventorySortedByPriority ==
    /\ Len(game.inventory) = 4
    /\ Range(game.inventory) = 1..4
    /\ game.inventory # <<1, 2, 3, 4>>
    /\ \A i \in 1..3 :
          orders[game.inventory[i]].priority >= orders[game.inventory[i + 1]].priority
    /\ \E i \in 1..3 :
          /\ orders[game.inventory[i]].priority = orders[game.inventory[i + 1]].priority
          /\ game.inventory[i] < game.inventory[i + 1]

(***************************************************************************)
(* The Hard tier in the street world                                       *)
(***************************************************************************)
InitHard == InitWorld(StreetTiles, StreetJobs, API_GOAL, MaxGameSeconds, {"hard"})

SpecHard == InitHard /\ [][Next]_vars

RECURSIVE ReachableFrom(_, _)
\* the walkable tiles joined to the tiles of seen by steps between 4-adjacent
\* walkable tiles
ReachableFrom(g, seen) ==
    LET more == seen \cup UNION {GraphGetNeighbors(g, p) : p \in seen} IN
    IF more = seen THEN seen ELSE ReachableFrom(g, more)

\* goal can be reached from start over walkable tiles
Reachable(g, start, goal) ==
    /\ GraphIsWalkable(g, start)
    /\ goal \in ReachableFrom(g, {start})

\* path is a sequence of walkable tiles from start to goal, each tile 4-adjacent
\* to the one before
IsPathFromTo(g, path, start, goal) ==
    /\ Len(path) >= 1
    /\ path[1] = start
    /\ path[Len(path)] = goal
    /\ \A i \in 1..Len(path) : GraphIsWalkable(g, path[i])
    /\ \A i \in 1..(Len(path) - 1) : ManhattanDistance(path[i], path[i + 1]) = 1

RECURSIVE PathCost(_, _, _)
\* the total cost of the tiles a path enters
PathCost(g, path, weather_penalty) ==
    IF Len(path) <= 1 THEN 0
    ELSE GetTileCost(g, path[Len(path)], weather_penalty)
            + PathCost(g, SubSeq(path, 1, Len(path) - 1), weather_penalty)

MaxTileCost(g, weather_penalty) ==
    CHOOSE c \in {GetTileCost(g, p, weather_penalty) : p \in GraphPositions(g)} :
        \A p \in GraphPositions(g) : GetTileCost(g, p, weather_penalty) <= c

\* C22: for every start and goal of the city, a_star returns a path exactly when
\* the goal can be reached from the start, and the path it returns begins at the
\* start, ends at the goal, runs over walkable 4-adjacent tiles, and costs no
\* more than the length of the bfs path times the largest tile cost
C22_AStarPathIffReachable ==
    \A start \in GraphPositions(game), goal \in GraphPositions(game) :
        LET wp == GetStaminaPenalty(weather)
            found == AStar(game, start, goal, wp)
            shortest == BFS(game, start, goal)
        IN  /\ found.kind \in {"path", "none"}
            /\ found.kind = "none" <=> ~Reachable(game, start, goal)
            /\ found.kind = "path" =>
                 /\ IsPathFromTo(game, found.path, start, goal)
                 /\ shortest.kind = "path"
                 /\ PathCost(game, found.path, wp)
                      <= (Len(shortest.path) - 1) * MaxTileCost(game, wp)

\* C23: the decisions of a Hard agent never raise an error, and the order the
\* agent pursues has a pickup it can reach and a dropoff that can be reached
\* from the pickup
C23_HardPlanningCompletes ==
    \A k \in DOMAIN cpus :
        cpus[k].difficulty = "hard" =>
            /\ cpus[k].raised = "none"
            /\ cpus[k].current_order # NoOrder =>
                 /\ Reachable(game, cpus[k].pos, orders[cpus[k].current_order].pickup)
                 /\ Reachable(game, orders[cpus[k].current_order].pickup,
                              orders[cpus[k].current_order].dropoff)

RECURSIVE CheapestWithin(_, _, _, _, _)
\* the least total tile cost of a path from start to goal of at most n steps,
\* or -1 when there is none
CheapestWithin(g, weather_penalty, start, goal, n) ==
    IF start = goal THEN 0
    ELSE IF n = 0 THEN -1
    ELSE LET via == {CheapestWithin(g, weather_penalty, start, q, n - 1) :
                        q \in GraphGetNeighbors(g, goal)} \ {-1}
         IN  IF via = {} THEN -1
             ELSE GetTileCost(g, goal, weather_penalty)
                    + CHOOSE c \in via : \A d \in via : c <= d

\* C30: for every start and every goal that can be reached from it, under the
\* weather penalty of the moment, a_star and dijkstra both return a path, and
\* the two paths have the same total tile cost, the least of all paths
C30_AStarCostIsDijkstraCost ==
    \A start \in GraphPositions(game), goal \in GraphPositions(game) :
        Reachable(game, start, goal) =>
            LET wp == GetStaminaPenalty(weather)
                found == AStar(game, start, goal, wp)
                cheapest == Dijkstra(game, start, goal, wp)
            IN  /\ found.kind = "path"
                /\ cheapest.kind = "path"
                /\ PathCost(game, found.path, wp) = PathCost(game, cheapest.path, wp)
                /\ PathCost(game, found.path, wp) =
                     CheapestWithin(game, wp, start, goal,
                                    Cardinality(GraphPositions(game)))

(***************************************************************************)
(* Capacity: a street world whose orders weigh 6, 6 and 5, so that a       *)
(* courier carrying one order cannot take a second                          *)
(***************************************************************************)
HeavyJobs ==
    << Job(Pos(2, 2), Pos(2, 3), 150, 18, 6, 0, 0),
       Job(Pos(2, 4), Pos(2, 3), 120, 18, 6, 2, 0),
       Job(Pos(2, 2), Pos(2, 2), 200, 24, 5, 1, 0) >>

InitHeavy == InitWorld(StreetTiles, HeavyJobs, API_GOAL, MaxGameSeconds, {"easy", "medium"})

SpecHeavy == InitHeavy /\ [][Next]_vars

\* the order would bring the carried weight above max_weight
OverCapacity(inventory, id) ==
    SumWeights(orders, inventory) + orders[id].weight > MAX_WEIGHT

\* the first order of the pool that the human's interaction would pick up
PickableHere ==
    SelectSeq(game.available_orders,
              LAMBDA id : orders[id].pickup = game.player_pos
                          /\ orders[id].status = "available")

\* C24: a pickup that would bring the carried weight above max_weight changes
\* nothing for the human, by interaction and by accepting from the list; for a
\* CPU agent it changes nothing but the agent's plan, which becomes idle with no
\* current order
C24_OverweightPickupRejected ==
    /\ \A id \in Range(game.available_orders) :
          OverCapacity(game.inventory, id) => HumanPickup(St, id) = St
    /\ (PickableHere # <<>> /\ OverCapacity(game.inventory, Head(PickableHere)))
          => \A io_ok \in BOOLEAN : InteractAtPosition(St, io_ok) = St
    /\ \A index \in -1..MAX_SELECT_INDEX :
          (/\ game.available_orders # <<>>
           /\ index < Len(game.available_orders)
           /\ OverCapacity(game.inventory,
                           game.available_orders[PyIndex(game.available_orders, index)]))
             => AcceptSelectedOrder(St, index) = St
    /\ \A k \in DOMAIN cpus : \A id \in Range(game.available_orders) :
          OverCapacity(cpus[k].inventory, id) =>
             CPUPickupOrder(St, k, id) =
                [St EXCEPT !.c[k].current_order = NoOrder, !.c[k].action_state = "idle"]

\* the human carries an order and stands on the pickup of a pool order that is
\* too heavy to add, while the CPU agent carries an order to which a pool order
\* is too heavy to add
C24_BothAtCapacity ==
    /\ game.inventory # <<>>
    /\ PickableHere # <<>>
    /\ OverCapacity(game.inventory, Head(PickableHere))
    /\ \E k \in DOMAIN cpus :
          /\ cpus[k].inventory # <<>>
          /\ cpus[k].current_order # NoOrder
          /\ \E id \in Range(game.available_orders) : OverCapacity(cpus[k].inventory, id)

(***************************************************************************)
(* The weather system on its own: a transition that has just been          *)
(* initiated, the ticks of the game, and wall-clock time that passes       *)
(* without a tick                                                          *)
(***************************************************************************)
WeatherTickMs == 500
WeatherRunSeconds == 5
MaxPauses == 2

\* the (previous, target) pairs of the model: two rows of TRANSITION_MATRIX and
\* the pair of the clear-to-storm scenario, which the matrix itself never draws
WeatherPairs == {<<"clear", "wind">>, <<"rain", "storm">>, <<"clear", "storm">>}

\* the intensities a condition can have when a change is initiated: the initial
\* 0.5 and the ends of uniform(0.4, 0.9)
WeatherIntensities == {4000, 5000, 9000}

\* the state _initiate_weather_change leaves, in a new game without CPU agents
InitWeather ==
    LET n == NewGame(StreetTiles, StreetJobs, API_GOAL, MaxGameSeconds) IN
    /\ game = n.g
    /\ orders = n.o
    /\ cpus = <<>>
    /\ \E pair \in WeatherPairs, intensity \in WeatherIntensities :
         \E rnd \in [condition : {pair[2]}, intensity : {4000, 9000},
                     burst : {25000, 40000}] :
            weather = InitiateWeatherChange(
                        [WeatherInit EXCEPT !.current_condition = pair[1],
                                            !.current_intensity = intensity,
                                            !.time_in_current = 25000], rnd)

\* EnhancedWeatherSystem.update of one tick
WeatherTick ==
    /\ weather.time_in_current < WeatherRunSeconds * 1000
    /\ \E rnd \in WeatherDraws(weather, WeatherTickMs) :
         weather' = WeatherUpdate(weather, WeatherTickMs, rnd)
    /\ UNCHANGED <<game, orders, cpus>>

\* run while the game is paused: no handle_input and no update, and time.time()
\* goes on, so the elapsed time of a transition grows without a tick
PausedFor(ms) ==
    /\ weather.transitioning
    /\ weather.elapsed < MaxPauses * TRANSITION_DURATION_MS
    /\ weather' = [weather EXCEPT !.elapsed = @ + ms]
    /\ UNCHANGED <<game, orders, cpus>>

NextWeather ==
    \/ WeatherTick
    \/ \E ms \in {500, 2000} : PausedFor(ms)

SpecWeather == InitWeather /\ [][NextWeather]_vars

SaveFrameSeconds == 6
SaveGameSeconds == 24
\* the game time up to which the model saves
SaveUntilSeconds == 6
\* the streak up to which the model loads
SaveMaxStreak == 2

InitSave ==
    LET n == NewGame(StreetTiles, StreetJobs, API_GOAL, SaveGameSeconds) IN
    /\ game = n.g
    /\ orders = n.o
    /\ weather = WeatherInit
    /\ cpus = <<>>

NextSave ==
    \/ Frame("none", SaveFrameSeconds * 1000)
    \/ KeyEvents
    \/ (game.game_time <= SaveUntilSeconds * 1000 /\ KeySave)
    \/ (game.delivery_streak <= SaveMaxStreak /\ KeyLoad)

SpecSave == InitSave /\ [][NextSave]_vars

\* C26: loading the slot restores the player's position, stamina, reputation,
\* money, inventory and delivery_streak, the game time, the weather condition,
\* intensity and time_in_current, and the pending, available and completed
\* orders with their fields, to their values at the save
C26_LoadRestoresTheSave ==
    game.save_slot # <<>> =>
        LET saved == game.save_slot[1]
            loaded == LoadGame(St)
        IN  /\ loaded.g.player_pos = saved.player_pos
            /\ loaded.g.stamina = saved.stamina
            /\ loaded.g.reputation = saved.reputation
            /\ loaded.g.money = saved.money
            /\ loaded.g.inventory = saved.inventory
            /\ loaded.g.delivery_streak = saved.delivery_streak
            /\ loaded.g.game_time = saved.game_time
            /\ loaded.w.current_condition = saved.current_weather
            /\ loaded.w.current_intensity = saved.weather_intensity
            /\ loaded.w.time_in_current = saved.weather_time
            /\ loaded.g.pending_orders = saved.pending_orders
            /\ loaded.g.available_orders = saved.available_orders
            /\ loaded.g.completed_orders = saved.completed_orders
            /\ \A id \in Range(saved.inventory) \cup Range(saved.pending_orders)
                           \cup Range(saved.available_orders)
                           \cup Range(saved.completed_orders) :
                  loaded.o[id] = saved.orders[id]

\* C27: an order enters the pool only in a step that ends at a game time at or
\* after its release_time, and then its created_at is that game time and its
\* whole duration remains; an order that is pending has its whole duration
\* remaining and stays pending or enters the pool
C27_CountdownStartsAtRelease ==
    [][\A id \in DOMAIN orders :
          /\ (id \notin Range(game.available_orders) /\ id \in Range(game'.available_orders))
                => /\ orders[id].release_time <= game'.game_time
                   /\ orders'[id].created_at = game'.game_time
                   /\ orders'[id].status = "available"
                   /\ GetOrderTimeRemaining(St', id) = orders'[id].duration
          /\ id \in Range(game.pending_orders)
                => /\ GetOrderTimeRemaining(St, id) = orders[id].duration
                   /\ orders[id].status = "waiting_release"
                   /\ \/ id \in Range(game'.pending_orders)
                      \/ id \in Range(game'.available_orders)]_vars

\* an order has just entered the pool later than its release_time, with its
\* countdown starting now, while another order that is due is still pending
C27_ReleasedLateWithFullTime ==
    /\ \E id \in Range(game.available_orders) :
          /\ orders[id].release_time < game.game_time
          /\ orders[id].created_at = game.game_time
          /\ GetOrderTimeRemaining(St, id) = orders[id].duration
    /\ \E id \in Range(game.pending_orders) :
          /\ orders[id].release_time < game.game_time
          /\ orders[id].created_at < orders[id].release_time

\* C28: when the order a CPU agent is moving to pick up is no longer in the
\* pool, the agent makes no move while still pursuing it, and does not add it
\* to its inventory
C28_StalePlanIsDropped ==
    [][\A k \in DOMAIN cpus :
          LET id == cpus[k].current_order IN
          (/\ id # NoOrder
           /\ cpus[k].action_state = "moving_to_pickup"
           /\ id \notin Range(game.available_orders))
             => /\ cpus'[k].pos # cpus[k].pos => cpus'[k].current_order # id
                /\ id \notin Range(cpus'[k].inventory)]_vars

\* 2.0 * (1 + weather penalty + weight penalty), the weight penalty 0.5 above
\* 70% of the capacity, 0.2 above 50%, else 0; in millionths
RuleStaminaCost(weather_penalty, carried) ==
    2 * (SU + weather_penalty
            + (IF carried * 10 > MAX_WEIGHT * 7 THEN SU \div 2
               ELSE IF carried * 10 > MAX_WEIGHT * 5 THEN SU \div 5
               ELSE 0))

\* C29: the cost of a move is 2.0 * (1 + weather penalty + weight penalty) for
\* the human and for every CPU agent, so that a CPU agent carrying the weight
\* the human carries pays what the human pays
C29_OneStaminaCostRule ==
    /\ CalculateStaminaCost(St)
         = RuleStaminaCost(GetStaminaPenalty(weather), SumWeights(orders, game.inventory))
    /\ \A k \in DOMAIN cpus :
         /\ CPUCalculateStaminaCost(St, k)
              = RuleStaminaCost(GetStaminaPenalty(weather),
                                SumWeights(orders, cpus[k].inventory))
         /\ SumWeights(orders, cpus[k].inventory) = SumWeights(orders, game.inventory)
              => CPUCalculateStaminaCost(St, k) = CalculateStaminaCost(St)

\* the targets of a planning step: the tiles of the city and a position outside
\* it, to which no search finds a path
PlanTargets == GraphPositions(game) \cup {Pos(CityWidth(game), 0)}

\* C31: a Hard agent's path planning to any target ends without an error; when
\* neither a_star nor bfs finds a path it leaves the agent idle with no current
\* order, and position, inventory and pool as they were
C31_NoPathLeavesAgentIdle ==
    \A k \in DOMAIN cpus : \A target \in PlanTargets :
        cpus[k].difficulty = "hard" /\ cpus[k].raised = "none" =>
            LET wp == GetStaminaPenalty(weather)
                planned == HardCalculateOptimalPath(St, k, target)
            IN  /\ planned.c[k].raised = "none"
                /\ (/\ AStar(game, cpus[k].pos, target, wp) = NoPath
                    /\ BFS(game, cpus[k].pos, target) = NoPath)
                      => planned = [St EXCEPT !.c[k].current_order = NoOrder,
                                              !.c[k].action_state = "idle"]

(***************************************************************************)
(* Orders with endpoints anywhere in the city (_fix_order_positions)       *)
(***************************************************************************)
FixFrameSeconds == 6
FixGameSeconds == 12

\* the endpoints as the provider sends them: one order picked up anywhere and
\* dropped on the human's tile, one the other way round
FixJobs(pickup, dropoff) ==
    << Job(pickup, Pos(2, 2), 150, 30, 4, 0, 0),
       Job(Pos(2, 2), dropoff, 120, 30, 4, 0, 0) >>

InitFix ==
    \E tiles \in {BulkTiles, StreetTiles} :
      \E pickup, dropoff \in {Pos(x, y) : x \in 0..(Len(tiles[1]) - 1),
                                          y \in 0..(Len(tiles) - 1)} :
        LET n == NewGame(tiles, FixJobs(pickup, dropoff), API_GOAL, FixGameSeconds)
        IN  /\ game = n.g
            /\ orders = n.o
            /\ weather = WeatherInit
            /\ cpus = <<>>

NextFix ==
    \/ \E key \in BulkKeys : Frame(key, FixFrameSeconds * 1000)
    \/ KeyEvents

SpecFix == InitFix /\ [][NextFix]_vars

ChebyshevDistance(p, q) == Max(Abs(p.x - q.x), Abs(p.y - q.y))

\* C32: the city has a walkable tile, and every order of the pool has its
\* pickup and its dropoff on a walkable tile in bounds; the tile a blocked
\* endpoint is moved to is a walkable tile at the smallest Chebyshev distance
C32_PoolEndpointsWalkable ==
    LET tiles == GraphPositions(game)
        walkable == {p \in tiles : IsPositionWalkable(game, p)}
    IN  walkable # {} =>
          /\ \A i \in DOMAIN game.available_orders :
               LET ord == orders[game.available_orders[i]] IN
               /\ IsPositionWalkable(game, ord.pickup)
               /\ IsPositionWalkable(game, ord.dropoff)
          /\ \A p \in tiles \ walkable :
               LET moved == FindNearestWalkablePosition(game, p) IN
               /\ moved \in walkable
               /\ \A q \in walkable :
                    ChebyshevDistance(p, moved) <= ChebyshevDistance(p, q)

(***************************************************************************)
(* The weather through a whole burst, with saving and loading: a game      *)
(* without orders and without CPU agents, ticked every second              *)
(***************************************************************************)
ClimateTickMs == 1000
ClimateGameSeconds == 32
\* the game time up to which the model saves
ClimateSaveUntilSeconds == 0

\* the (current, target) pairs of the first change, each of TRANSITION_MATRIX
ClimatePairs == {<<"clear", "wind">>, <<"rain", "storm">>}

\* the state _initiate_weather_change leaves
InitClimate ==
    LET n == NewGame(StreetTiles, <<>>, API_GOAL, ClimateGameSeconds) IN
    /\ game = n.g
    /\ orders = n.o
    /\ cpus = <<>>
    /\ \E pair \in ClimatePairs :
         \E rnd \in [condition : {pair[2]}, intensity : {9000},
                     burst : {25000}] :
            weather = InitiateWeatherChange(
                        [WeatherInit EXCEPT !.current_condition = pair[1],
                                            !.time_in_current = 25000], rnd)

NextClimate ==
    \/ Frame("none", ClimateTickMs)
    \/ (game.game_time <= ClimateSaveUntilSeconds * 1000 /\ KeySave)
    \/ KeyLoad

SpecClimate == InitClimate /\ [][NextClimate]_vars

\* C33: every change of current_condition goes to a condition with positive
\* weight in the row of the condition it leaves, in ticks and in loads
C33_ChangesFollowTheMatrix ==
    [][weather'.current_condition # weather.current_condition
         => weather'.current_condition \in TransitionRow(weather.current_condition)]_vars

\* C34: the step that completes a transition commits the target condition and
\* intensity and resets time_in_current to 0, so that the burst of 25 to 40 s
\* is counted from the completion
C34_CompletionRestartsTheBurst ==
    [][(weather.transitioning /\ ~weather'.transitioning)
         => /\ weather'.current_condition = weather.target_condition
            /\ weather'.current_intensity = weather.target_intensity
            /\ weather'.time_in_current = 0
            /\ weather'.burst_duration >= 25000
            /\ weather'.burst_duration <= 40000]_vars

\* the status changes of waiting_release -> available -> picked_up or accepted
\* -> delivered or expired
LifecycleSteps ==
    {<<"waiting_release", "available">>, <<"available", "picked_up">>,
     <<"available", "accepted">>, <<"available", "expired">>,
     <<"picked_up", "delivered">>, <<"picked_up", "expired">>,
     <<"accepted", "delivered">>, <<"accepted", "expired">>}

\* order id is pending, in the pool, or held or completed by the human or an agent
InSomeCollection(g, c, id) ==
    \/ id \in Range(g.pending_orders) \cup Range(g.available_orders)
                \cup Range(g.inventory) \cup Range(g.completed_orders)
    \/ \E k \in DOMAIN c : id \in Range(c[k].inventory) \cup Range(c[k].completed_orders)

\* C35: a status changes only along the lifecycle; an order in a completed
\* collection has status delivered, an order removed from the pool or an
\* inventory for expiry has status expired, and a delivered or expired status
\* never changes
C35_StatusFollowsLifecycle ==
    [][\A id \in OrderIds :
         /\ orders'[id].status # orders[id].status
              => <<orders[id].status, orders'[id].status>> \in LifecycleSteps
         /\ (\/ id \in Range(game'.completed_orders)
             \/ \E k \in DOMAIN cpus' : id \in Range(cpus'[k].completed_orders))
              => orders'[id].status = "delivered"
         /\ (InSomeCollection(game, cpus, id) /\ ~InSomeCollection(game', cpus', id))
              => orders'[id].status = "expired"]_vars

\* the orders of the human's inventory that interact_at_position can deliver on
\* the human's tile
DeliverableHere ==
    {id \in Range(game.inventory) :
        orders[id].dropoff = game.player_pos /\ orders[id].status = "picked_up"}

\* C39: an interaction of the human on the dropoff tile of a picked-up order of
\* the inventory delivers such an order: it moves to completed_orders and is
\* paid, whatever the pool holds
C39_InteractionDelivers ==
    (game.game_state = "playing" /\ DeliverableHere # {}) =>
        \A io_ok \in BOOLEAN :
            LET done == InteractAtPosition(St, io_ok).g IN
            \E id \in DeliverableHere :
                /\ done.completed_orders = Append(game.completed_orders, id)
                /\ id \notin Range(done.inventory)
                /\ done.money > game.money

\* the human holds order id with status accepted
HeldAccepted(id) ==
    id \in Range(game.inventory) /\ orders[id].status = "accepted"

\* C40: an order the human holds with status accepted is not delivered: in
\* every step it stays in the inventory with status accepted, or it leaves the
\* inventory by expiring, with no time left and 6 points of reputation lost,
\* and does not enter completed_orders
C40_AcceptedNeverDelivered ==
    [][\A id \in OrderIds :
         HeldAccepted(id) =>
            /\ id \notin Range(game'.completed_orders)
            /\ \/ /\ id \in Range(game'.inventory)
                  /\ orders'[id].status = "accepted"
               \/ /\ id \notin Range(game'.inventory)
                  /\ GetOrderTimeRemaining(
                        [St EXCEPT !.g.game_time = game'.game_time], id) <= 0
                  /\ game'.reputation <= game.reputation - EXPIRE_PENALTY]_vars

\* C37: in every state with game_over set, victory is set exactly when the
\* money has reached the goal
C37_VictoryIffGoalReached ==
    game.game_over => (game.victory <=> game.money >= game.goal)

(***************************************************************************)
(* The run loop keeps ticking: while the game is on and not paused, every  *)
(* iteration of run calls handle_input and update, so a tick that stays    *)
(* possible is taken.  A city without orders, in which the human walks,    *)
(* saves and loads                                                         *)
(***************************************************************************)
TickingFrameSeconds == 6
TickingGameSeconds == 24
\* the game time up to which the model saves
TickingSaveUntilSeconds == 6

InitTicking ==
    LET n == NewGame(StreetTiles, <<>>, API_GOAL, TickingGameSeconds) IN
    /\ game = n.g
    /\ orders = n.o
    /\ weather = WeatherInit
    /\ cpus = <<>>

Tick == \E key \in Keys : Frame(key, TickingFrameSeconds * 1000)

NextTicking ==
    \/ Tick
    \/ (game.game_time <= TickingSaveUntilSeconds * 1000 /\ KeySave)
    \/ KeyLoad

SpecTicking == InitTicking /\ [][NextTicking]_vars /\ WF_vars(Tick)

\* a step of load_game that takes the game back in time
LoadsEarlierGame == KeyLoad /\ game'.game_time < game.game_time

\* C36 as stated: under continued ticking every game eventually is over,
\* whatever keys the player presses
C36_EveryGameEnds == <>game.game_over

\* C36: under continued ticking a game in which the player stops loading
\* earlier saves eventually is over, and in every state that a tick leaves with
\* game_time at or beyond max_game_time the game is over
C36_EndsOnceLoadingStops ==
    /\ (<>[][~LoadsEarlierGame]_vars) => <>game.game_over
    /\ [](game.game_time >= game.max_game_time => game.game_over)

C36_EndedAtTimeLimit ==
    /\ game.game_over
    /\ game.game_time >= game.max_game_time
    /\ game.reputation >= LOSE_REPUTATION
    /\ game.save_slot # <<>>

(***************************************************************************)
(* Committed agents (ai_strategies.py make_decision, cpu_player.py         *)
(* _clean_expired_orders)                                                  *)
(***************************************************************************)
Agents == 1..Len(cpus)

\* the agent has committed to an order
Committed(c) ==
    c.current_order # NoOrder /\ c.action_state \in {"moving_to_pickup", "moving_to_dropoff"}

\* the agent is on its way to a drop-off and carries nothing
CarriesNothing(c) ==
    c.current_order # NoOrder /\ c.action_state = "moving_to_dropoff" /\ c.inventory = <<>>

\* bounds of the errand world
ErrandFrameSeconds == 6
ErrandGameSeconds == 42
ReturnTicks == 12

\* one order of 12 s from the CPU agent's start tile to the tile next to it
ErrandJobs == << Job(Pos(2, 4), Pos(2, 3), 150, 12, 4, 0, 0) >>

InitErrand ==
    InitWorld(StreetTiles, ErrandJobs, API_GOAL, ErrandGameSeconds, {"easy", "medium"})

NextErrand ==
    \/ \E key \in Keys : Frame(key, ErrandFrameSeconds * 1000)
    \/ KeyEvents

SpecErrand == InitErrand /\ [][NextErrand]_vars

RECURSIVE ReturnsWithin(_, _, _, _)
\* whether some course of n further updates of agent k, dt apart, starting in one
\* of the states S, has the agent uncommitted
ReturnsWithin(S, k, dt, n) ==
    IF \E s \in S : ~Committed(s.c[k]) THEN TRUE
    ELSE IF n = 0 THEN FALSE
    ELSE ReturnsWithin(UNION {CPUUpdate([s EXCEPT !.g.game_time = @ + dt], k, dt) : s \in S},
                       k, dt, n - 1)

\* C38: every CPU agent that has committed to an order returns to idle with no
\* current order under continued ticking.  What a finite run can show of it: in
\* every state the program reaches, a committed agent that has not raised has a
\* course of further updates that ends its commitment.
C38_CommittedAgentsReturnToIdle ==
    \A k \in Agents :
        (Committed(cpus[k]) /\ cpus[k].raised = "none")
            => ReturnsWithin({St}, k, ErrandFrameSeconds * 1000, ReturnTicks)

\* an agent that is on its way to a drop-off with nothing to carry stays so
\* through every step of the program
StrandedForGood ==
    [][\A k \in Agents : CarriesNothing(cpus[k]) => CarriesNothing(cpus'[k])]_vars

====
